---------------------------- MODULE Spec2Model ----------------------------
(***************************************************************************)
(* Bulk domain-scan pipeline of the archive checker.                       *)
(*                                                                         *)
(* The repository holds several variants of the scanner:                   *)
(*   "pool"  src/src/App.jsx:110-215    worker pool inside parts           *)
(*   "rec"   src/src/App.jsx:788-860    recursive pool (concurrency slider)*)
(*   "par"   src/src/App.jsx:1127-1240  scanDomainsParallel, with retries  *)
(*   "seq"   src/unnamed/part_001:89-205 checkDomainTwice, sequential      *)
(* The variable `variant` says which one is deployed; it never changes.    *)
(*                                                                         *)
(* One step of the model is one turn of the JavaScript event loop: a user  *)
(* click, a network answer or a timer, followed by every synchronous and   *)
(* promise continuation it triggers, up to the next network call or timer. *)
(***************************************************************************)
EXTENDS Integers, Sequences, FiniteSets, TLC

(* ------------------------------ bounds -------------------------------- *)
\* longest domain list a run of the pool scanners ("pool", "rec") scans
MaxDomains == 4
\* longest domain list a run of the retrying scanners ("par", "seq") scans
RetryDomains == 3
\* number of runs started in one session (SpecSession)
MaxRuns == 2
\* longest domain list of a run of a session with several runs (SpecSession);
\* such a list is one batch: SessionDomains <= BATCH_SIZE
SessionDomains == 1
\* PART_SIZE (src/src/App.jsx:120, 50 in the source), scaled down
PART_SIZE == 3
\* CONCURRENCY (src/src/App.jsx:121, 10 in the source), scaled down; the
\* source keeps CONCURRENCY < PART_SIZE and so does the model
CONCURRENCY == 2
\* BATCH_SIZE of the retrying scanners (10 in the source), scaled down
BATCH_SIZE == 2
\* largest value the concurrency slider is moved to (20 in the source)
MaxSlider == 2
\* longest domain list of a run whose clock is read (SpecTimed); such a list
\* is one batch: TimedDomains <= BATCH_SIZE
TimedDomains == 2
\* longest domain list of such a run of "par"
TimedParDomains == 1
\* largest rounded difference the clock shows (SpecTimed)
MaxMs == 2

(* ------------------------------ values -------------------------------- *)
Variants == {"pool", "rec", "par", "seq"}

\* a field that a JavaScript object does not have
Undefined == "undefined"

Min(a, b) == IF a < b THEN a ELSE b

\* the extracted domain list of length n: the k-th unique domain is token k
list(n) == [k \in 1..n |-> k]

\* arr.slice(from, to) with 0-based bounds, `to` exclusive and clamped
slice(arr, from, to) ==
    [k \in 1..(Min(to, Len(arr)) - from) |-> arr[from + k]]

RECURSIVE chunkFrom(_, _, _)
chunkFrom(arr, size, i) ==
    IF i < Len(arr)
    THEN <<slice(arr, i, i + size)>> \o chunkFrom(arr, size, i + size)
    ELSE <<>>

RECURSIVE chunkWhole(_, _, _)
\* chunk with the loop test `i + size <= arr.length`: the last, shorter slice
\* is lost
chunkWhole(arr, size, i) ==
    IF i + size <= Len(arr)
    THEN <<slice(arr, i, i + size)>> \o chunkWhole(arr, size, i + size)
    ELSE <<>>

chunk_dropsRest(arr, size) == chunkWhole(arr, size, 0)

\* function chunk(arr, size)
chunk(arr, size) == chunkFrom(arr, size, 0)

(* ------------------------------ records ------------------------------- *)
\* timeMs of a record that has no such key
NoTime == -1

Max(a, b) == IF a > b THEN a ELSE b

\* Math.round(a / b) for a >= 0 and b > 0: the nearest integer, a half going up
RoundDiv(a, b) == (2 * a + b) \div (2 * b)

\* Math.round(t1 - t0) as it is, without Math.max(1, ...)
atLeastOne_raw(elapsed) == elapsed

\* Math.max(1, Math.round(t1 - t0)) for a rounded difference of the clock
atLeastOne(elapsed) == Max(1, elapsed)

\* archived_snapshots.closest of the body of an availability response: the
\* closest snapshot with its url and its timestamp
Snapshot ==
    [present |-> TRUE, url |-> "http://web.archive.org/web/20010101000000/",
     timestamp |-> "20010101000000"]

\* data?.archived_snapshots?.closest of a body without it: undefined, and so
\* are closest?.url and closest?.timestamp
NoSnapshot == [present |-> FALSE, url |-> Undefined, timestamp |-> Undefined]

\* what the availability endpoint puts in archived_snapshots.closest
Closests == {Snapshot, NoSnapshot}

\* v || null
orNull(v) == IF v = Undefined THEN "null" ELSE v

\* a JavaScript boolean as a field of a record, which may also lack the key
JsBool(b) == IF b THEN "true" ELSE "false"

\* Boolean(closest)
archivedOf(closest) == closest.present

\* closestUrl and closestTs with the two fields taken from each other
closestOf_swapped(closest) ==
    [url |-> orNull(closest.timestamp), ts |-> orNull(closest.url)]

\* closestUrl: closest?.url || null, closestTs: closest?.timestamp || null
closestOf(closest) ==
    [url |-> orNull(closest.url), ts |-> orNull(closest.timestamp)]

\* closestUrl: null, closestTs: null
NullClosest == [url |-> "null", ts |-> "null"]

\* closestUrl and closestTs of a record that has neither key
NoClosest == [url |-> Undefined, ts |-> Undefined]

\* one element of rows / items: the status, the error text (errorMsg, or
\* error in "pool" and "rec"), the latency timeMs and the closest snapshot
\* (closestUrl with closestTs, or url with timestamp in "rec")
Row(d, st, msg) ==
    [domain |-> d, status |-> st, errorMsg |-> msg, timeMs |-> NoTime,
     archived |-> Undefined, closest |-> NoClosest]

\* a settled record with its latency and its closest snapshot
RowOf(d, st, msg, ms, archived, closest) ==
    [domain |-> d, status |-> st, errorMsg |-> msg, timeMs |-> ms,
     archived |-> archived, closest |-> closest]

\* {...undefined}: what the spread of a missing element yields, and what a
\* hole of the array reads as
EmptyRow == Row(0, Undefined, Undefined)

\* c[i] of a JavaScript array, i 0-based
At(arr, i) == IF i < Len(arr) THEN arr[i + 1] ELSE EmptyRow

\* c[i] = v on a copy of the array: the array grows, with holes, when i is
\* beyond its end
SetAt(arr, i, v) ==
    [k \in 1..(IF i < Len(arr) THEN Len(arr) ELSE i + 1) |->
        IF k = i + 1 THEN v ELSE At(arr, k - 1)]

\* the state of one domain whose processing is in flight: the call it waits
\* for (stage, and k the number of the attempt or try), `archived` and
\* `timeMs` of the lookup's answer once there is one, err the message of the
\* error result built so far, and retried: the timer between two attempts
\* has run since t0
Task(stage, k, archived, err) ==
    [stage |-> stage, k |-> k, archived |-> archived, err |-> err,
     timeMs |-> 0, retried |-> FALSE, closest |-> NullClosest]

\* tasks with task t added for index i
Put(tasks, i, t) ==
    [x \in (DOMAIN tasks) \cup {i} |-> IF x = i THEN t ELSE tasks[x]]

\* tasks without index i
Drop(tasks, i) == [x \in (DOMAIN tasks) \ {i} |-> tasks[x]]

NoTasks == [x \in {} |-> Task("avail", 0, FALSE, Undefined)]

\* what the clock shows when a record settles, as the rounded difference to
\* t0: not less than `least`, the time that has passed for sure
Readings(ms, least) == {least} \cup {x \in ms : x > least}

\* ways an availability lookup fails: the network call, or a status that is
\* not successful
ErrKinds == {"network", "http"}

VARIABLES
    variant,      \* which scanner is deployed
    rows,         \* useState rows / items: the ScanRecord collection
    progress,     \* useState progress: {done, total} ("pool", "rec")
    stats,        \* useState stats: {done, total, errors, avg} ("par", "seq")
    batchInfo,    \* useState batchInfo: {idx, total} ("par", "seq")
    isRunning,    \* useState isRunning / isScanning
    concurrency,  \* useState concurrency ("rec")
    abortRef,     \* abortRef.current: the run whose controller it holds, 0 = null
    runs,         \* the closure of every call of the scan function
    hist,         \* history of every run (observation only)
    clip,         \* the text the user types or pastes: e.target.value
    raw,          \* useState raw / input: the content of the text area
    domains,      \* useMemo domains: the domains extracted from the text area
    relay,        \* the relay (src/proxy.js, src/api/cdx.js) and its request
    download      \* the text of the file exportCSV has handed to the browser

\* the text area and what is derived from it
text == <<clip, raw, domains>>

vars == <<variant, rows, progress, stats, batchInfo, isRunning, concurrency,
          abortRef, runs, hist, text, relay, download>>

RunIds == 1..Len(runs)

(* --------------------------- one run's closure ------------------------ *)
\* The local variables of one call of the scan function:
\*   n        list.length / domains.length, the list being list(n)
\*   conc     `concurrency` as read at the start ("rec")
\*   aborted  controller.signal.aborted
\*   pc       "running", "delay" (the timer between two batches is pending)
\*            or "returned"
\*   b        p / b, the index of the current part or batch
\*   idx      idxInPart ("pool"), idx ("rec"), j ("seq")
\*   done, errors, totalTime   the counters of the same name
\*   tasks    the domains in flight, by global index, each with the call it
\*            is waiting for
NewRun(n, c) ==
    [n |-> n, conc |-> c, aborted |-> FALSE, pc |-> "running", b |-> 0,
     idx |-> 0, done |-> 0, errors |-> 0, totalTime |-> 0, tasks |-> NoTasks]

\* What has happened in one run so far:
\*   marks[i]    times record i was marked `checking` by this run
\*   lookups[i]  availability requests this run issued for domain i
\*   answers[i]  what the availability endpoint answered for domain i, in
\*               order: "ok" or "fail"
\*   settles[i]  times this run settled record i
\*   batches     parts / batches this run has entered
\*   bAtAbort    the value of b when the run was cancelled, -1 before
\*   lateReq     an HTTP request was issued after the run was cancelled
\*   failing[i]  how the availability lookups of domain i failed, in order,
\*               since the last one that did not fail
\*   lat[i]      timeMs of the answer of the latest successful availability
\*               lookup of domain i, 0 when there is none
\*   enrich[i]   calls of enrichByCDX for domain i
\*   raw[i]      the rounded t1 - t0 the latest availability lookup of
\*               domain i measured, 0 when it failed or there is none
\*   closest[i]  archived_snapshots.closest of the body the latest
\*               availability lookup of domain i received, NoSnapshot when it
\*               failed or there is none
NewHist(n) ==
    [marks |-> [i \in 0..(n - 1) |-> 0], lookups |-> [i \in 0..(n - 1) |-> 0],
     answers |-> [i \in 0..(n - 1) |-> <<>>],
     settles |-> [i \in 0..(n - 1) |-> 0], batches |-> 0, bAtAbort |-> -1,
     lateReq |-> FALSE,
     failing |-> [i \in 0..(n - 1) |-> <<>>],
     lat |-> [i \in 0..(n - 1) |-> 0],
     enrich |-> [i \in 0..(n - 1) |-> 0],
     raw |-> [i \in 0..(n - 1) |-> 0],
     closest |-> [i \in 0..(n - 1) |-> NoSnapshot]]

\* The state one continuation reads and writes: the component state and the
\* closure (run) and history (h) of the run it belongs to.
World(r) ==
    [rows |-> rows, progress |-> progress, stats |-> stats,
     batchInfo |-> batchInfo, isRunning |-> isRunning,
     run |-> runs[r], h |-> hist[r]]

\* the step of run r ends in world w
Commit(r, w) ==
    /\ rows' = w.rows
    /\ progress' = w.progress
    /\ stats' = w.stats
    /\ batchInfo' = w.batchInfo
    /\ isRunning' = w.isRunning
    /\ runs' = [runs EXCEPT ![r] = w.run]
    /\ hist' = [hist EXCEPT ![r] = w.h]
    /\ UNCHANGED <<variant, concurrency, abortRef, text, relay, download>>

\* a click on the start control creates run r, whose first step ends in w;
\* `abortRef.current = controller`
Begin(r, w) ==
    /\ rows' = w.rows
    /\ progress' = w.progress
    /\ stats' = w.stats
    /\ batchInfo' = w.batchInfo
    /\ isRunning' = w.isRunning
    /\ runs' = Append(runs, w.run)
    /\ hist' = Append(hist, w.h)
    /\ abortRef' = r
    /\ UNCHANGED <<variant, concurrency, text, relay, download>>

\* abortRef.current?.abort(); setIsRunning(false)
Abort ==
    /\ isRunning' = FALSE
    /\ IF abortRef = 0
       THEN UNCHANGED <<runs, hist>>
       ELSE /\ runs' = [runs EXCEPT ![abortRef].aborted = TRUE]
            /\ hist' = [hist EXCEPT ![abortRef].bAtAbort =
                          IF runs[abortRef].aborted THEN @ ELSE runs[abortRef].b]
    /\ UNCHANGED <<variant, rows, progress, stats, batchInfo, concurrency,
                   abortRef, text, relay, download>>

\* the scan function returns and the running flag is left as it is
returned_flagStays(w) == [w EXCEPT !.run.pc = "returned"]

\* the scan function returns and its caller runs setIsRunning(false)
returned(w) == [w EXCEPT !.isRunning = FALSE, !.run.pc = "returned"]

\* a request to the availability endpoint for domain i is issued
issueLookup(w, i, k) ==
    [w EXCEPT !.run.tasks = Put(@, i, Task("avail", k, FALSE, Undefined)),
              !.h.lookups[i] = @ + 1,
              !.h.lateReq = @ \/ w.run.aborted]

\* a further request to the availability endpoint for domain i is issued,
\* after the timer between two attempts
retryLookup(w, i, k) ==
    [w EXCEPT !.run.tasks[i] = [@ EXCEPT !.stage = "avail", !.k = k,
                                         !.retried = TRUE],
              !.h.lookups[i] = @ + 1,
              !.h.lateReq = @ \/ w.run.aborted]

\* a request to the timestamp index for domain i is issued
issueCdx(w, i, stage, k, archived) ==
    [w EXCEPT !.run.tasks[i] = [@ EXCEPT !.stage = stage, !.k = k,
                                         !.archived = archived],
              !.h.lateReq = @ \/ w.run.aborted]

\* the answers of the availability endpoint: a snapshot, no snapshot, or a
\* failure of kind err; elapsed is the rounded t1 - t0 of checkAvailable, one
\* of ms
AvailOutcomes(ms) ==
    {[ok |-> TRUE, closest |-> c, archived |-> archivedOf(c), err |-> Undefined,
      elapsed |-> e] : c \in Closests, e \in ms}
    \cup {[ok |-> FALSE, closest |-> NoSnapshot, archived |-> FALSE, err |-> e,
           elapsed |-> 0] : e \in ErrKinds}

\* the world of run r when the availability endpoint has answered o for
\* domain i
Answered(r, i, o) ==
    [World(r) EXCEPT !.run.tasks[i].timeMs =
                         IF o.ok THEN atLeastOne(o.elapsed) ELSE @,
                     !.run.tasks[i].archived = o.archived,
                     !.run.tasks[i].closest =
                         IF o.ok THEN closestOf(o.closest) ELSE @,
                     !.h.closest[i] = o.closest,
                     !.h.answers[i] = Append(@, IF o.ok THEN "ok" ELSE "fail"),
                     !.h.failing[i] = IF o.ok THEN <<>> ELSE Append(@, o.err),
                     !.h.lat[i] = IF o.ok THEN atLeastOne(o.elapsed) ELSE 0,
                     !.h.raw[i] = o.elapsed]

(* ======================= "pool": src/src/App.jsx:110-215 =============== *)
\* String(e) of what checkAvailable (lines 45-59) throws
pool_errorText(kind) ==
    IF kind = "http" THEN "Error: HTTP 500" ELSE "TypeError: Failed to fetch"

\* const parts = chunk(list, PART_SIZE)
pool_parts(run) == chunk(list(run.n), PART_SIZE)

\* the worker without its test of the signal
pool_workerAborted_never(run) == FALSE

\* line 148: if (controller.signal.aborted) break
pool_workerAborted(run) == run.aborted

\* setRows that maps every record to `checking`
pool_markChecking_all(w, i) ==
    [w EXCEPT !.rows = [k \in 1..Len(@) |-> [@[k] EXCEPT !.status = "checking"]],
              !.h.marks[i] = @ + 1]

\* lines 151-153: setRows(... status: "checking")
pool_markChecking(w, i) ==
    [w EXCEPT !.rows = SetAt(@, i, [At(w.rows, i) EXCEPT !.status = "checking"]),
              !.h.marks[i] = @ + 1]

\* the worker that reads idxInPart and increments it only after its await:
\* the index is not claimed when the next worker reads it
pool_worker_lateClaim(w) ==
    LET run == w.run
        part == pool_parts(run)[run.b + 1]
    IN  IF run.idx < Len(part)
        THEN LET globalIdx == run.b * PART_SIZE + run.idx
             IN  IF pool_workerAborted(run)
                 THEN w
                 ELSE issueLookup(pool_markChecking(w, globalIdx), globalIdx, 0)
        ELSE w

\* lines 143-156: one worker from the test of its while loop to its first
\* await, or to its exit
pool_worker(w) ==
    LET run == w.run
        part == pool_parts(run)[run.b + 1]
    IN  IF run.idx < Len(part)
        THEN LET localIdx == run.idx
                 globalIdx == run.b * PART_SIZE + localIdx
                 claimed == [w EXCEPT !.run.idx = localIdx + 1]
             IN  IF pool_workerAborted(run)
                 THEN claimed
                 ELSE issueLookup(pool_markChecking(claimed, globalIdx), globalIdx, 0)
        ELSE w

\* one worker for every domain of the part
pool_poolSize_all(len) == len

\* line 205: the size of the pool
pool_poolSize(len) == Min(CONCURRENCY, len)

RECURSIVE pool_spawn(_, _)
\* lines 204-206: Array.from({length}, () => worker())
pool_spawn(w, k) == IF k = 0 THEN w ELSE pool_spawn(pool_worker(w), k - 1)

\* lines 136-209: the loop over the parts from its test, to the first await
\* of the part's workers or to the return of startScan
pool_forParts(w) ==
    IF w.run.b < Len(pool_parts(w.run)) /\ ~ w.run.aborted
    THEN pool_spawn([w EXCEPT !.run.idx = 0, !.h.batches = @ + 1],
                    pool_poolSize(Len(pool_parts(w.run)[w.run.b + 1])))
    ELSE returned(w)

\* lines 204-206: Promise.all resolves when every worker has ended
pool_allDone(run) == DOMAIN run.tasks = {}

\* lines 164-206: record i is written, then the finally block, the rest of
\* the worker's loop and, when the last worker of the part ends, Promise.all
pool_settle(w, i, row) ==
    LET w1 == [w EXCEPT !.rows = SetAt(@, i, row),
                        !.run.tasks = Drop(@, i),
                        !.run.done = @ + 1,
                        !.h.settles[i] = @ + 1]
        w2 == [w1 EXCEPT !.progress = [done |-> w1.run.done, total |-> w1.run.n]]
        w3 == pool_worker(w2)
    IN  IF pool_allDone(w3.run)
        THEN pool_forParts([w3 EXCEPT !.run.b = @ + 1])
        ELSE w3

\* lines 123-135: the click on "Start High-Speed Scan"
pool_startScan(maxRuns, maxDomains) ==
    /\ variant = "pool"
    /\ ~ isRunning
    /\ Len(runs) < maxRuns
    /\ \E n \in 1..maxDomains :
         Begin(Len(runs) + 1,
               pool_forParts(
                 [rows |-> [k \in 1..n |-> Row(list(n)[k], "queued", Undefined)],
                  progress |-> [done |-> 0, total |-> n],
                  stats |-> stats, batchInfo |-> batchInfo, isRunning |-> TRUE,
                  run |-> NewRun(n, 0), h |-> NewHist(n)]))

\* lines 212-215: the click on "Stop", shown while isRunning
pool_stopScan ==
    /\ variant = "pool"
    /\ isRunning
    /\ Abort

\* lines 164-178: the record of a domain that went through
pool_complete(d, t) == RowOf(d, "complete", Undefined, t.timeMs, Undefined, t.closest)

\* lines 180-195: the record of a domain whose try block threw
pool_failed(d, kind) ==
    RowOf(d, "error", pool_errorText(kind), 0, Undefined, NullClosest)

\* what a request to the timestamp index does: it answers with data, answers
\* with a status that is not successful, or throws (the fetch rejects, or
\* res.json() does on a body that is not JSON)
CdxOutcomes == {"data", "notok", "throw"}

\* line 156: checkAvailable(domain) answers or throws
pool_checkAvailable(ms) ==
    /\ variant = "pool"
    /\ \E r \in RunIds : \E i \in DOMAIN runs[r].tasks : \E o \in AvailOutcomes(ms) :
         /\ runs[r].tasks[i].stage = "avail"
         /\ Commit(r, IF o.ok
                      THEN issueCdx(Answered(r, i, o), i, "years", 0, o.archived)
                      ELSE pool_settle(Answered(r, i, o), i,
                             pool_failed(list(runs[r].n)[i + 1], o.err)))

\* line 159: fetchFirstLastYears(domain) answers or throws
pool_fetchFirstLastYears ==
    /\ variant = "pool"
    /\ \E r \in RunIds : \E i \in DOMAIN runs[r].tasks : \E o \in CdxOutcomes :
         /\ runs[r].tasks[i].stage = "years"
         /\ Commit(r, IF o # "throw"
                      THEN issueCdx(World(r), i, "count", 0, runs[r].tasks[i].archived)
                      ELSE pool_settle(World(r), i,
                             pool_failed(list(runs[r].n)[i + 1], "network")))

\* line 162: fetchSnapshotsByYearCount(domain) answers or throws
pool_fetchSnapshotsByYearCount ==
    /\ variant = "pool"
    /\ \E r \in RunIds : \E i \in DOMAIN runs[r].tasks : \E o \in CdxOutcomes :
         /\ runs[r].tasks[i].stage = "count"
         /\ Commit(r, pool_settle(World(r), i,
                        IF o # "throw"
                        THEN pool_complete(list(runs[r].n)[i + 1], runs[r].tasks[i])
                        ELSE pool_failed(list(runs[r].n)[i + 1], "network")))

\* lines 259-261 and 309: the average the header shows, Math.round(avgMs)
pool_avgMs(rws) ==
    LET timed == {k \in 1..Len(rws) : rws[k].timeMs > 0}
        sum[S \in SUBSET timed] ==
            IF S = {} THEN 0
            ELSE LET k == CHOOSE x \in S : TRUE IN rws[k].timeMs + sum[S \ {k}]
    IN  RoundDiv(sum[timed], Max(1, Cardinality(timed)))

(* ======================= "rec": src/src/App.jsx:788-860 ================ *)
\* String(e) of what checkWayback (lines 762-775) throws
rec_errorText(kind) ==
    IF kind = "http" THEN "Error: HTTP 500" ELSE "TypeError: Failed to fetch"

\* line 824: if (controller.signal.aborted) return
rec_nextAborted(run) == run.aborted

\* lines 823-834: next() from its entry to its first await, or to its return
rec_next(w) ==
    LET run == w.run
    IN  IF rec_nextAborted(run) \/ run.idx >= run.n
        THEN w
        ELSE LET i == run.idx
                 claimed == [w EXCEPT !.run.idx = i + 1]
                 marked == [claimed EXCEPT
                              !.rows = SetAt(@, i, [At(claimed.rows, i) EXCEPT
                                                      !.status = "checking"]),
                              !.h.marks[i] = @ + 1]
             IN  issueLookup(marked, i, 0)

\* line 853: the number of chains started
rec_poolSize(c, len) == Min(c, len)

RECURSIVE rec_spawn(_, _)
\* line 853: Array.from({length}, () => next())
rec_spawn(w, k) == IF k = 0 THEN w ELSE rec_spawn(rec_next(w), k - 1)

\* lines 835-854: record i is written, then the finally block with the
\* recursive call and, when the last chain ends, Promise.all and
\* setIsRunning(false)
rec_settle(w, i, row) ==
    LET w1 == [w EXCEPT !.rows = SetAt(@, i, row),
                        !.run.tasks = Drop(@, i),
                        !.run.done = @ + 1,
                        !.h.settles[i] = @ + 1]
        w2 == [w1 EXCEPT !.progress = [done |-> w1.run.done, total |-> w1.run.n]]
        w3 == IF w2.run.idx < w2.run.n THEN rec_next(w2) ELSE w2
    IN  IF DOMAIN w3.run.tasks = {} THEN returned(w3) ELSE w3

\* lines 810-853: the click on "Start", shown while not isRunning
rec_start(maxRuns, maxDomains) ==
    /\ variant = "rec"
    /\ ~ isRunning
    /\ Len(runs) < maxRuns
    /\ \E n \in 1..maxDomains :
         Begin(Len(runs) + 1,
               rec_spawn(
                 [rows |-> [k \in 1..n |-> Row(list(n)[k], "queued", Undefined)],
                  progress |-> [done |-> 0, total |-> n],
                  stats |-> stats, batchInfo |-> batchInfo, isRunning |-> TRUE,
                  run |-> NewRun(n, concurrency), h |-> NewHist(n)],
                 rec_poolSize(concurrency, n)))

\* lines 857-860: the click on "Stop", shown while isRunning
rec_stop ==
    /\ variant = "rec"
    /\ isRunning
    /\ Abort

\* line 940: the concurrency slider is moved
rec_setConcurrency ==
    /\ variant = "rec"
    /\ \E c \in 1..MaxSlider :
         /\ c # concurrency
         /\ concurrency' = c
    /\ UNCHANGED <<variant, rows, progress, stats, batchInfo, isRunning,
                   abortRef, runs, hist, text, relay, download>>

\* line 834: checkWayback(domain) answers or throws; it reads no clock
rec_checkWayback ==
    /\ variant = "rec"
    /\ \E r \in RunIds : \E i \in DOMAIN runs[r].tasks : \E o \in AvailOutcomes({0}) :
         /\ runs[r].tasks[i].stage = "avail"
         /\ Commit(r, rec_settle(Answered(r, i, o), i,
                        IF o.ok
                        THEN RowOf(list(runs[r].n)[i + 1],
                                   IF o.archived THEN "archived" ELSE "not_found",
                                   Undefined, NoTime, JsBool(o.archived),
                                   closestOf(o.closest))
                        ELSE Row(list(runs[r].n)[i + 1], "error", rec_errorText(o.err))))

(* ============ the retrying scanners: what "par" and "seq" share ========= *)
\* what checkDomainTwice returns and what the retry loop of
\* scanDomainsParallel leaves in `result`: ms is its timeMs, closest its
\* closestUrl and closestTs
Result(st, msg, ms, archived, closest) ==
    [status |-> st, errorMsg |-> msg, timeMs |-> ms, archived |-> archived,
     closest |-> closest]

\* { ...res, ...enrichInfo, status: "complete" } for the lookup answer the
\* task t holds
completeOf(t) ==
    Result("complete", Undefined, t.timeMs, JsBool(t.archived), t.closest)

\* the result of a domain whose attempts all failed, msg being e.message
errorOf(msg) == Result("error", msg, 0, Undefined, NullClosest)

\* the spreads in the other order, {...result, ...c[globalIdx]}: the fields
\* the record already has win
merge_rowWins(row, result) ==
    [row EXCEPT !.status = IF @ = Undefined THEN result.status ELSE @,
                !.timeMs = result.timeMs,
                !.archived = IF result.archived = Undefined THEN @
                             ELSE result.archived,
                !.closest = result.closest]

\* {...c[globalIdx], ...result}: a result that is not an error has no
\* errorMsg key and leaves the record's errorMsg as it is
merge(row, result) ==
    [row EXCEPT !.status = result.status,
                !.errorMsg = IF result.status = "error" THEN result.errorMsg ELSE @,
                !.timeMs = result.timeMs,
                !.archived = IF result.archived = Undefined THEN @
                             ELSE result.archived,
                !.closest = result.closest]

\* timeMs: result.status === "error" ? 0 : Math.max(1, Math.round(t1 - t0)),
\* reading being the rounded t1 - t0
recordMs(result, reading) ==
    IF result.status = "error" THEN 0 ELSE atLeastOne(reading)

\* setRows(... status: "checking", errorMsg: undefined)
markChecking(w, i) ==
    [w EXCEPT !.rows = SetAt(@, i, [At(w.rows, i) EXCEPT !.status = "checking",
                                                        !.errorMsg = Undefined]),
              !.h.marks[i] = @ + 1]

\* the average over every settled record, the error records counted in
setStats_countsErrors(w) ==
    [w EXCEPT !.stats =
        [done |-> w.run.done, total |-> w.run.n, errors |-> w.run.errors,
         avg |-> RoundDiv(w.run.totalTime, Max(1, w.run.done))]]

\* the statistics are left as they are
setStats_skipped(w) == w

\* setStats({ done, total, errors, avg })
setStats(w) ==
    [w EXCEPT !.stats =
        [done |-> w.run.done, total |-> w.run.n, errors |-> w.run.errors,
         avg |-> RoundDiv(w.run.totalTime, Max(1, w.run.done - w.run.errors))]]

\* the record is written and the counters and statistics are updated
\* (App.jsx:1193-1205, part_001:181-193); reading is the rounded t1 - t0
applyResult(w, i, result, reading) ==
    setStats(
      [w EXCEPT !.rows = SetAt(@, i, [merge(At(w.rows, i), result) EXCEPT
                                        !.timeMs = recordMs(result, reading)]),
                !.run.tasks = Drop(@, i),
                !.run.done = @ + 1,
                !.run.errors = IF result.status = "error" THEN @ + 1 ELSE @,
                !.run.totalTime = IF result.status = "error" THEN @
                                  ELSE @ + result.timeMs,
                !.h.settles[i] = @ + 1])

\* the least the clock can show, as the rounded difference to t0, when the
\* latest lookup of domain i has answered: the lookup took what it measured,
\* and the timer between two attempts, if it ran, took longer than the
\* rounding
least(w, i) == w.h.raw[i] + (IF w.run.tasks[i].retried THEN 1 ELSE 0)

\* if (res.archived): enrichByCDX is called
enrichWanted_always(archived) == TRUE

\* line 1162, part_001:93: if (res.archived)
enrichWanted(archived) == archived

\* enrichInfo = await enrichByCDX(domain): the call, to its first request
enrichByCDX(w, i) ==
    issueCdx([w EXCEPT !.h.enrich[i] = @ + 1], i, "first", 0,
             w.run.tasks[i].archived)

\* the stage of enrichByCDX after `stage`: first, last, year, then the return
nextStage(stage) ==
    CASE stage = "first" -> "last"
      [] stage = "last" -> "year"
      [] OTHER -> "return"

\* the stage of a task that waits between two tries of fetchProxy(stage)
waiting(stage) ==
    CASE stage = "first" -> "firstWait"
      [] stage = "last" -> "lastWait"
      [] OTHER -> "yearWait"

\* the stage fetchProxy is called for, of a task that waits
waited(stage) ==
    CASE stage = "firstWait" -> "first"
      [] stage = "lastWait" -> "last"
      [] OTHER -> "year"

\* the answers fetchProxy sees: usable data, a status that is not successful,
\* a body without data, or a failure of the call
ProxyOutcomes == {"data", "notok", "empty", "throw"}

(* ======================= "par": src/src/App.jsx:1017-1240 ============== *)
\* e.message of what checkAvailable (lines 1048-1067) throws; the first is
\* "Lỗi mạng" in the source
par_errorText(kind) == IF kind = "http" THEN "HTTP 500" ELSE "Loi mang"

\* const batches = chunk(domains, batchSize)
par_batches(run) == chunk(list(run.n), BATCH_SIZE)

\* line 1149: if (controller.signal.aborted) return
par_domainAborted(run) == run.aborted

\* the callback that writes at the position in the batch, without the
\* offset of the batch
par_startDomain_localIdx(w, j) ==
    IF w.run.aborted
    THEN w
    ELSE issueLookup(markChecking(w, j), j, 0)

\* lines 1149-1161: the callback of batch.map for position j, to its first
\* await or to its return
par_startDomain(w, j) ==
    IF par_domainAborted(w.run)
    THEN w
    ELSE LET globalIdx == w.run.b * BATCH_SIZE + j
         IN  issueLookup(markChecking(w, globalIdx), globalIdx, 0)

RECURSIVE par_map(_, _, _)
\* line 1148: batch.map over positions j .. len - 1
par_map(w, j, len) ==
    IF j < len THEN par_map(par_startDomain(w, j), j + 1, len) ELSE w

\* line 1209: if (controller.signal.aborted) break
par_batchAborted(run) == run.aborted

\* lines 1208-1212: after Promise.allSettled: the break, the timer between
\* two batches, or the end of the loop and the return
par_afterBatch(w) ==
    IF par_batchAborted(w.run)
    THEN returned(w)
    ELSE IF w.run.b < Len(par_batches(w.run)) - 1
         THEN [w EXCEPT !.run.pc = "delay"]
         ELSE returned([w EXCEPT !.run.b = @ + 1])

\* Promise.race in place of Promise.allSettled: the first callback to end
\* resolves it
par_allSettled_first(run) == TRUE

\* line 1208: Promise.allSettled resolves when every callback has ended
par_allSettled(run) == DOMAIN run.tasks = {}

\* lines 1143-1208: the loop over the batches from its test: one iteration,
\* to the first await of its domains, or the return
par_forBatches(w) ==
    LET total == Len(par_batches(w.run))
        w1 == [w EXCEPT !.batchInfo = [idx |-> w.run.b + 1, total |-> total],
                        !.h.batches = @ + 1]
        w2 == par_map(w1, 0, Len(par_batches(w.run)[w.run.b + 1]))
    IN  IF w.run.b < total
        THEN IF par_allSettled(w2.run) THEN par_afterBatch(w2) ELSE w2
        ELSE returned(w)

\* lines 1192-1208: the record settles; when it is the last of the batch,
\* Promise.allSettled resolves
par_settle(w, i, result, reading) ==
    LET w1 == applyResult(w, i, result, reading)
    IN  IF par_allSettled(w1.run) THEN par_afterBatch(w1) ELSE w1

\* lines 1230-1233 and 1128-1141: the click on the scan button
par_startScan(maxRuns, maxDomains) ==
    /\ variant = "par"
    /\ ~ isRunning
    /\ Len(runs) < maxRuns
    /\ \E n \in 1..maxDomains :
         Begin(Len(runs) + 1,
               par_forBatches(
                 [rows |-> [k \in 1..n |-> Row(list(n)[k], "checking", Undefined)],
                  progress |-> progress,
                  stats |-> [done |-> 0, total |-> n, errors |-> 0, avg |-> 0],
                  batchInfo |-> batchInfo, isRunning |-> TRUE,
                  run |-> NewRun(n, 0), h |-> NewHist(n)]))

\* lines 1237-1240: the click on the cancel control, shown while isScanning
par_cancelScan ==
    /\ variant = "par"
    /\ isRunning
    /\ Abort

\* line 1210: the timer between two batches fires
par_batchDelay ==
    /\ variant = "par"
    /\ \E r \in RunIds :
         /\ runs[r].pc = "delay"
         /\ Commit(r, par_forBatches([World(r) EXCEPT !.run.pc = "running",
                                                      !.run.b = @ + 1]))

\* the loop with one attempt more
par_retryLeft_three(retry) == retry < 3

\* line 1158: retry < 2
par_retryLeft(retry) == retry < 2

\* enrichByCDX has run through: lines 1169-1170
par_enriched(w, i, reading) == par_settle(w, i, completeOf(w.run.tasks[i]), reading)

\* the error result is built on the first failed attempt
par_keepsMessage_first(retry) == retry = 0

\* line 1176: if (retry === 1): the error result is built
par_keepsMessage(retry) == retry = 1

\* line 1161: checkAvailable(domain) answers or throws
par_checkAvailable(ms) ==
    /\ variant = "par"
    /\ \E r \in RunIds : \E i \in DOMAIN runs[r].tasks : \E o \in AvailOutcomes(ms) :
         LET t == runs[r].tasks[i]
             w == Answered(r, i, o)
         IN  /\ t.stage = "avail"
             /\ IF o.ok
                THEN IF enrichWanted(o.archived)
                     THEN Commit(r, enrichByCDX(w, i))
                     ELSE \E reading \in Readings(ms, least(w, i)) :
                              Commit(r, par_settle(w, i, completeOf(w.run.tasks[i]),
                                                   reading))
                ELSE Commit(r, [w EXCEPT !.run.tasks[i] =
                                  [@ EXCEPT !.stage = "retryDelay",
                                            !.err = IF par_keepsMessage(t.k)
                                                    THEN par_errorText(o.err)
                                                    ELSE @]])

\* line 1189: the timer after a failed attempt fires
par_retryDelay ==
    /\ variant = "par"
    /\ \E r \in RunIds : \E i \in DOMAIN runs[r].tasks :
         LET t == runs[r].tasks[i]
         IN  /\ t.stage = "retryDelay"
             /\ Commit(r, IF par_retryLeft(t.k + 1)
                          THEN retryLookup(World(r), i, t.k + 1)
                          ELSE par_settle(World(r), i, errorOf(t.err), 0))

\* line 1073: i < 3
par_proxyTryLeft(k) == k < 3

\* fetchProxy(stage) returns after try k, and enrichByCDX with it
par_proxyEnds(stage, k, gotData) ==
    (gotData \/ ~ par_proxyTryLeft(k + 1)) /\ nextStage(stage) = "return"

\* lines 1073-1087 and 1092-1123: after try k of fetchProxy(stage) the next
\* try, or with the tries used up or the data there, the next stage
par_proxyNext(w, i, stage, k, gotData, reading) ==
    IF ~ gotData /\ par_proxyTryLeft(k + 1)
    THEN issueCdx(w, i, stage, k + 1, w.run.tasks[i].archived)
    ELSE IF nextStage(stage) = "return"
         THEN par_enriched(w, i, reading)
         ELSE issueCdx(w, i, nextStage(stage), 0, w.run.tasks[i].archived)

\* lines 1075-1084: a request of fetchProxy answers or fails
par_fetchProxy(ms) ==
    /\ variant = "par"
    /\ \E r \in RunIds : \E i \in DOMAIN runs[r].tasks : \E o \in ProxyOutcomes :
         LET t == runs[r].tasks[i]
         IN  /\ t.stage \in {"first", "last", "year"}
             /\ \E reading \in IF o \in {"data", "notok"}
                                  /\ par_proxyEnds(t.stage, t.k, o = "data")
                               THEN Readings(ms, least(World(r), i)) ELSE {0} :
                  Commit(r,
                    CASE o = "data" ->
                           par_proxyNext(World(r), i, t.stage, t.k, TRUE, reading)
                      [] o = "notok" ->
                           par_proxyNext(World(r), i, t.stage, t.k, FALSE, reading)
                      [] OTHER ->
                           [World(r) EXCEPT !.run.tasks[i].stage = waiting(t.stage)])

\* line 1085: the timer between two tries of fetchProxy fires
par_fetchProxyDelay(ms) ==
    /\ variant = "par"
    /\ \E r \in RunIds : \E i \in DOMAIN runs[r].tasks :
         LET t == runs[r].tasks[i]
         IN  /\ t.stage \in {"firstWait", "lastWait", "yearWait"}
             /\ \E reading \in IF par_proxyEnds(waited(t.stage), t.k, FALSE)
                               THEN Readings(ms, least(World(r), i)) ELSE {0} :
                  Commit(r, par_proxyNext(World(r), i, waited(t.stage), t.k, FALSE,
                                          reading))

(* ======================= "seq": src/unnamed/part_001 =================== *)
\* e.message of what checkAvailable (lines 32-51) throws
seq_errorText(kind) == IF kind = "http" THEN "HTTP 500" ELSE "Network error"

\* const batches = chunk(domains, BATCH_SIZE)
seq_batches(run) == chunk(list(run.n), BATCH_SIZE)

\* the loop over the positions without its test of the signal
seq_domainAborted_never(run) == FALSE

\* line 170: if (controller.signal.aborted) continue
seq_domainAborted(run) == run.aborted

\* line 195: if (controller.signal.aborted) break
seq_batchAborted(run) == run.aborted

\* lines 195-199: after the last position of a batch: the break, the timer
\* between two batches, or the end of the loop and setIsScanning(false)
seq_afterBatch(w) ==
    IF seq_batchAborted(w.run)
    THEN returned(w)
    ELSE IF w.run.b < Len(seq_batches(w.run)) - 1
         THEN [w EXCEPT !.run.pc = "delay"]
         ELSE returned([w EXCEPT !.run.b = @ + 1])

\* lines 169-179: the loop over the positions of the batch from position
\* run.idx: positions are skipped once aborted, else the next one is started
seq_forDomains(w) ==
    LET len == Len(seq_batches(w.run)[w.run.b + 1])
    IN  IF w.run.idx < len /\ ~ seq_domainAborted(w.run)
        THEN LET globalIdx == w.run.b * BATCH_SIZE + w.run.idx
             IN  issueLookup(markChecking(w, globalIdx), globalIdx, 1)
        ELSE seq_afterBatch([w EXCEPT !.run.idx = len])

\* lines 166-168: the loop over the batches from its test: one iteration,
\* or setIsScanning(false)
seq_forBatches(w) ==
    IF w.run.b < Len(seq_batches(w.run))
    THEN seq_forDomains([w EXCEPT !.batchInfo = [idx |-> w.run.b + 1,
                                                 total |-> Len(seq_batches(w.run))],
                                  !.run.idx = 0,
                                  !.h.batches = @ + 1])
    ELSE returned(w)

\* checkDomainTwice that throws when its attempts are used up: the exception
\* leaves startScan
seq_settle_throws(w, i, result, reading) ==
    IF result.status = "error"
    THEN [w EXCEPT !.run.tasks = Drop(@, i), !.run.pc = "returned"]
    ELSE seq_forDomains([applyResult(w, i, result, reading) EXCEPT !.run.idx = @ + 1])

\* lines 179-194: checkDomainTwice has returned `result`
seq_settle(w, i, result, reading) ==
    seq_forDomains([applyResult(w, i, result, reading) EXCEPT !.run.idx = @ + 1])

\* lines 148-165: the click on "High-Speed Scan"
seq_startScan(maxRuns, maxDomains) ==
    /\ variant = "seq"
    /\ ~ isRunning
    /\ Len(runs) < maxRuns
    /\ \E n \in 1..maxDomains :
         Begin(Len(runs) + 1,
               seq_forBatches(
                 [rows |-> [k \in 1..n |-> Row(list(n)[k], "checking", Undefined)],
                  progress |-> progress,
                  stats |-> [done |-> 0, total |-> n, errors |-> 0, avg |-> 0],
                  batchInfo |-> batchInfo, isRunning |-> TRUE,
                  run |-> NewRun(n, 0), h |-> NewHist(n)]))

\* lines 202-205: the click on "Cancel Scan", shown while isScanning
seq_cancelScan ==
    /\ variant = "seq"
    /\ isRunning
    /\ Abort

\* line 196: the timer between two batches fires
seq_batchDelay ==
    /\ variant = "seq"
    /\ \E r \in RunIds :
         /\ runs[r].pc = "delay"
         /\ Commit(r, seq_forBatches([World(r) EXCEPT !.run.pc = "running",
                                                      !.run.b = @ + 1]))

\* line 103: if (attempt === 2): the attempts are used up
seq_lastAttempt(attempt) == attempt = 2

\* lines 92-117 of checkDomainTwice: checkAvailable(domain) answers or throws
seq_checkAvailable(ms) ==
    /\ variant = "seq"
    /\ \E r \in RunIds : \E i \in DOMAIN runs[r].tasks : \E o \in AvailOutcomes(ms) :
         LET t == runs[r].tasks[i]
             w == Answered(r, i, o)
         IN  /\ t.stage = "avail"
             /\ IF o.ok
                THEN IF enrichWanted(o.archived)
                     THEN Commit(r, enrichByCDX(w, i))
                     ELSE \E reading \in Readings(ms, least(w, i)) :
                              Commit(r, seq_settle(w, i, completeOf(w.run.tasks[i]),
                                                   reading))
                ELSE IF seq_lastAttempt(t.k)
                     THEN Commit(r, seq_settle(w, i, errorOf(seq_errorText(o.err)), 0))
                     ELSE Commit(r, [w EXCEPT !.run.tasks[i].stage = "attemptDelay"])

\* line 117: the timer after the first failed attempt fires
seq_attemptDelay ==
    /\ variant = "seq"
    /\ \E r \in RunIds : \E i \in DOMAIN runs[r].tasks :
         LET t == runs[r].tasks[i]
         IN  /\ t.stage = "attemptDelay"
             /\ Commit(r, retryLookup(World(r), i, t.k + 1))

\* lines 53-86 of enrichByCDX: a request of fetchProxy answers or fails, and
\* either way the next of the three requests follows, or the return
seq_fetchProxy(ms) ==
    /\ variant = "seq"
    /\ \E r \in RunIds : \E i \in DOMAIN runs[r].tasks : \E o \in ProxyOutcomes :
         LET t == runs[r].tasks[i]
         IN  /\ t.stage \in {"first", "last", "year"}
             /\ IF nextStage(t.stage) = "return"
                THEN \E reading \in Readings(ms, least(World(r), i)) :
                         Commit(r, seq_settle(World(r), i, completeOf(t), reading))
                ELSE Commit(r, issueCdx(World(r), i, nextStage(t.stage), 0, t.archived))

(* ======== text: the extraction of the domains ======== *)
\* A text is a sequence of characters, a character a string of length one.
lowers == <<"a","b","c","d","e","f","g","h","i","j","k","l","m",
            "n","o","p","q","r","s","t","u","v","w","x","y","z">>
uppers == <<"A","B","C","D","E","F","G","H","I","J","K","L","M",
            "N","O","P","Q","R","S","T","U","V","W","X","Y","Z">>

\* [a-z]
letters == {lowers[k] : k \in DOMAIN lowers}

\* [0-9]
digits == {"0","1","2","3","4","5","6","7","8","9"}

\* [a-z0-9]
alnum == letters \cup digits

\* \s
whitespace == {" ", "\t", "\n", "\r"}

toLowerCase1(c) ==
    IF \E k \in DOMAIN uppers : uppers[k] = c
    THEN lowers[CHOOSE k \in DOMAIN uppers : uppers[k] = c]
    ELSE c

toLowerCase(s) == [k \in 1..Len(s) |-> toLowerCase1(s[k])]

chars(s) == {s[k] : k \in 1..Len(s)}

startsWith(s, p) == Len(p) <= Len(s) /\ SubSeq(s, 1, Len(p)) = p

drop(s, n) == SubSeq(s, n + 1, Len(s))

\* the first position of a character of the class, 0 when there is none
indexOf(s, class) ==
    IF \E k \in 1..Len(s) : s[k] \in class
    THEN CHOOSE k \in 1..Len(s) :
            s[k] \in class /\ \A j \in 1..(k - 1) : s[j] \notin class
    ELSE 0

\* String.prototype.split on one character of the class
RECURSIVE split(_, _)
split(s, class) ==
    LET k == indexOf(s, class)
    IN  IF k = 0 THEN <<s>>
        ELSE <<SubSeq(s, 1, k - 1)>> \o split(drop(s, k), class)

\* split on runs of the class, the empty parts filtered out
tokens(s, class) == SelectSeq(split(s, class), LAMBDA t : t # <<>>)

\* Array.from(new Set(xs)): the first occurrence of each entry
RECURSIVE uniq(_)
uniq(xs) ==
    IF xs = <<>> THEN <<>>
    ELSE LET init == uniq(SubSeq(xs, 1, Len(xs) - 1))
             x == xs[Len(xs)]
         IN  IF \E k \in 1..Len(init) : init[k] = x THEN init
             ELSE Append(init, x)

\* Array.prototype.join("\n")
RECURSIVE join(_)
join(xs) ==
    IF xs = <<>> THEN <<>>
    ELSE IF Len(xs) = 1 THEN xs[1]
    ELSE xs[1] \o <<"\n">> \o join(Tail(xs))

\* the longest label and the longest name of the grammar
LabelMax == 63
NameMax == 253

\* the extractor keeps the first MaxExtracted domains (1000 in the source)
MaxExtracted == 2

\* [a-z0-9](?:[a-z0-9-]{0,61}[a-z0-9])?
isLabel(l) ==
    /\ Len(l) \in 1..LabelMax
    /\ chars(l) \subseteq alnum \cup {"-"}
    /\ l[1] \in alnum
    /\ l[Len(l)] \in alnum

\* domainRe, on a lower-cased string
domainRe(s) ==
    LET labels == split(s, {"."})
        n == Len(labels)
    IN  /\ Len(s) \in 1..NameMax
        /\ n >= 2
        /\ \A k \in 1..(n - 1) : isLabel(labels[k])
        /\ Len(labels[n]) >= 2
        /\ chars(labels[n]) \subseteq letters

\* /^[^@\s]+@[^@\s]+\.[^@\s]+$/
emailRe(tok) ==
    LET parts == split(tok, {"@"})
    IN  /\ chars(tok) \cap whitespace = {}
        /\ Len(parts) = 2
        /\ parts[1] # <<>>
        /\ \E k \in 2..(Len(parts[2]) - 1) : parts[2][k] = "."

http == <<"h","t","t","p",":","/","/">>
https == <<"h","t","t","p","s",":","/","/">>
www == <<"w","w","w",".">>

\* /^https?:\/\//i
urlRe(tok) ==
    startsWith(toLowerCase(tok), http) \/ startsWith(toLowerCase(tok), https)

RECURSIVE dropWhile(_, _)
dropWhile(s, class) ==
    IF s # <<>> /\ s[1] \in class THEN dropWhile(Tail(s), class) ELSE s

RECURSIVE dropLastWhile(_, _)
dropLastWhile(s, class) ==
    IF s # <<>> /\ s[Len(s)] \in class
    THEN dropLastWhile(SubSeq(s, 1, Len(s) - 1), class) ELSE s

\* the part of s before the first character of the class
before(s, class) ==
    LET k == indexOf(s, class) IN IF k = 0 THEN s ELSE SubSeq(s, 1, k - 1)

\* characters no host may hold
forbiddenHost == {" ", "<", ">", "[", "\\", "]", "^", "|", "%"}

\* new URL(tok).hostname of a token that starts with http:// or https://,
\* for hosts of ASCII letters, hyphens and dots: the slashes after the scheme
\* are skipped, the authority ends at the first / \ ? #, the user information
\* ends at the last @, the port starts at the first colon; the host is
\* lower-cased. The constructor throws on an empty host, on a forbidden
\* character and on a port that is no number.
hostname(tok) ==
    LET rest == drop(tok, indexOf(tok, {":"}))
        authority == before(dropWhile(rest, {"/", "\\"}), {"/", "\\", "?", "#"})
        parts == split(authority, {"@"})
        hostport == parts[Len(parts)]
        host == before(hostport, {":"})
        port == drop(hostport, Len(host) + 1)
    IN  [ok   |-> /\ host # <<>>
                  /\ chars(host) \cap forbiddenHost = {}
                  /\ chars(port) \subseteq digits,
         host |-> toLowerCase(host)]

\* .replace(/^(https?:\/\/)?(www\.)?/i, "").replace(/[\/?#].*$/, "")
strip(s) ==
    LET low == toLowerCase(s)
        s1 == IF startsWith(low, https) THEN drop(s, Len(https))
              ELSE IF startsWith(low, http) THEN drop(s, Len(http))
              ELSE s
        s2 == IF startsWith(toLowerCase(s1), www) THEN drop(s1, Len(www)) ELSE s1
    IN  before(s2, {"/", "?", "#"})

\* the e-mail test comes first, the URL test second
normalize(tok) ==
    IF emailRe(tok) THEN split(tok, {"@"})[2]
    ELSE IF urlRe(tok)
         THEN IF hostname(tok).ok THEN hostname(tok).host ELSE tok
         ELSE tok

map(xs, Op(_)) == [k \in 1..Len(xs) |-> Op(xs[k])]

\* input.split(/\r?\n|,|\s+/).map(trim).filter(Boolean).map(normalize).map(strip)
stripped(input) == map(map(tokens(input, whitespace \cup {","}), normalize), strip)

\* the sequential variant: the doubles go after the lower-casing
seq_extractDomainsFromText(input) ==
    slice(SelectSeq(uniq(map(stripped(input), toLowerCase)), domainRe),
          0, MaxExtracted)

\* the parallel variant holds a copy of it
par_extractDomainsFromText(input) ==
    slice(SelectSeq(uniq(map(stripped(input), toLowerCase)), domainRe),
          0, MaxExtracted)

\* the pool variant: the doubles go before the lower-casing
pool_extractDomainsFromText(input) ==
    slice(SelectSeq(map(uniq(stripped(input)), toLowerCase), domainRe),
          0, MaxExtracted)

isValidHostname(h) ==
    /\ h # <<>>
    /\ Len(h) <= NameMax
    /\ \A k \in 1..Len(split(h, {"."})) : isLabel(split(h, {"."})[k])

\* /^[^@\s]+@([^@\s]+)$/
rec_emailRe(tok) ==
    LET parts == split(tok, {"@"})
    IN  /\ chars(tok) \cap whitespace = {}
        /\ Len(parts) = 2
        /\ parts[1] # <<>>
        /\ parts[2] # <<>>

\* .replace(/^[a-z]+:\/\//i, "")
rec_dropScheme(tok) ==
    LET t == dropWhile(toLowerCase(tok), letters)
        n == Len(tok) - Len(t)
    IN  IF n >= 1 /\ startsWith(t, <<":", "/", "/">>) THEN drop(tok, n + 3)
        ELSE tok

dropWww(s) == IF startsWith(toLowerCase(s), www) THEN drop(s, Len(www)) ELSE s

\* .replace(/\.$/, "")
dropDot(s) ==
    IF s # <<>> /\ s[Len(s)] = "." THEN SubSeq(s, 1, Len(s) - 1) ELSE s

\* every character but [a-z0-9], [a-z0-9.-] of a text, upper case included
notAlnum(s) == {c \in chars(s) : toLowerCase1(c) \notin alnum}
notHost(s) == {c \in chars(s) : toLowerCase1(c) \notin alnum \cup {".", "-"}}

\* the token pass on one token
rec_token(tok0) ==
    LET t1 == IF rec_emailRe(tok0) THEN split(tok0, {"@"})[2] ELSE tok0
        t2 == dropWww(rec_dropScheme(t1))
        t3 == before(t2, {"/", ":", "?", "#"})
        t4 == dropWhile(t3, notAlnum(t3))
        t5 == dropLastWhile(t4, notHost(t4))
    IN  dropDot(toLowerCase(t5))

\* (?:[a-z0-9](?:[a-z0-9-]{0,61}[a-z0-9])?\.)+(?:[a-z]{2,63}|xn--[a-z0-9-]{1,59})
rec_domainRe(s) ==
    LET labels == split(s, {"."})
        n == Len(labels)
        tld == labels[n]
    IN  /\ n >= 2
        /\ \A k \in 1..(n - 1) : isLabel(labels[k])
        /\ \/ Len(tld) \in 2..LabelMax /\ chars(tld) \subseteq letters
           \/ /\ startsWith(tld, <<"x", "n", "-", "-">>)
              /\ Len(tld) \in 5..LabelMax
              /\ chars(tld) \subseteq alnum \cup {"-"}

\* the regular expression pass: a match is a whole run of [a-z0-9.-]
rec_match(m) == dropWww(dropDot(toLowerCase(m)))

rec_matches(input) ==
    map(SelectSeq(tokens(input, notHost(input)),
                  LAMBDA m : rec_domainRe(toLowerCase(m))),
        rec_match)

\* the concurrency-slider variant: the tokens first, the matches after them
rec_extractDomainsFromText(input) ==
    slice(uniq(SelectSeq(map(tokens(input, whitespace \cup {",", ";"}), rec_token)
                           \o rec_matches(input),
                         isValidHostname)),
          0, MaxExtracted)

extractDomainsFromText(v, input) ==
    CASE v = "pool" -> pool_extractDomainsFromText(input)
      [] v = "rec"  -> rec_extractDomainsFromText(input)
      [] v = "par"  -> par_extractDomainsFromText(input)
      [] OTHER      -> seq_extractDomainsFromText(input)

\* what the user types or pastes: up to MaxPieces of these pieces in a row
MaxPieces == 4

Pieces == {
    <<"a", ".", "c", "o">>,
    <<"A", ".", "C", "O">>,
    <<"b", ".", "c", "o">>,
    www,
    https,
    <<"/">>,
    <<"/", "@">>,
    <<"@">>,
    <<",">>,
    <<".">>,
    <<"-">>,
    <<"q", "=">> }

RECURSIVE TextsOf(_)
TextsOf(n) ==
    IF n = 0 THEN {<<>>}
    ELSE TextsOf(n - 1) \cup {t \o p : t \in TextsOf(n - 1), p \in Pieces}

\* onChange={(e) => setRaw(e.target.value)}, and the render that follows
onChange ==
    /\ variant \in {"pool", "par", "seq"}
    /\ raw' = clip
    /\ domains' = extractDomainsFromText(variant, clip)
    /\ UNCHANGED <<variant, rows, progress, stats, batchInfo, isRunning,
                   concurrency, abortRef, runs, hist, clip, relay,
                   download>>

\* handleInputChange and handlePaste of the concurrency-slider variant: the
\* text area shows the cleaned list
rec_handleInputChange ==
    /\ variant = "rec"
    /\ raw' = join(rec_extractDomainsFromText(clip))
    /\ domains' = rec_extractDomainsFromText(join(rec_extractDomainsFromText(clip)))
    /\ UNCHANGED <<variant, rows, progress, stats, batchInfo, isRunning,
                   concurrency, abortRef, runs, hist, clip, relay,
                   download>>

(* ======== the export: exportCSV ======== *)
\* no file has been exported
NoFile == <<"no file">>

\* null, and a key the record does not have, in a field that holds a text
Null == <<"null">>

header == <<
    <<"d", "o", "m", "a", "i", "n">>,
    <<"s", "t", "a", "t", "u", "s">>,
    <<"y", "e", "a", "r", "s">>,
    <<"f", "i", "r", "s", "t", "_", "y", "e", "a", "r">>,
    <<"l", "a", "s", "t", "_", "y", "e", "a", "r">>,
    <<"t", "o", "t", "a", "l", "_", "s", "n", "a", "p", "s", "h", "o", "t", "s">>,
    <<"t", "i", "m", "e", "_", "m", "s">>,
    <<"c", "l", "o", "s", "e", "s", "t", "_", "t", "s">>,
    <<"a", "r", "c", "h", "i", "v", "e", "_", "u", "r", "l">> >>

\* x ?? "" and x ?? 0
orEmpty(x) == IF x = Null THEN <<>> ELSE x
orZero(n) == IF n = NoTime THEN 0 ELSE n

\* String(n) of a number that is no fraction
RECURSIVE toString(_)
toString(n) ==
    LET digit == <<"0", "1", "2", "3", "4", "5", "6", "7", "8", "9">>[(n % 10) + 1]
    IN  IF n < 10 THEN <<digit>> ELSE Append(toString(n \div 10), digit)

\* the nine values of a record, as String(x) gives them
cells(r) ==
    << r.domain,
       r.status,
       orEmpty(r.years),
       orEmpty(r.firstYear),
       orEmpty(r.lastYear),
       toString(orZero(r.totalSnapshots)),
       toString(orZero(r.timeMs)),
       orEmpty(r.closestTs),
       orEmpty(r.closestUrl) >>

\* .replace(/"/g, '""')
RECURSIVE doubled(_)
doubled(x) ==
    IF x = <<>> THEN <<>>
    ELSE (IF x[1] = "\"" THEN <<"\"", "\"">> ELSE <<x[1]>>) \o doubled(Tail(x))

\* the quotes of a field are not doubled
quote_plain(x) == <<"\"">> \o x \o <<"\"">>

\* `"${String(x).replace(/"/g,'""')}"`
quote(x) == <<"\"">> \o doubled(x) \o <<"\"">>

\* Array.prototype.join(sep)
RECURSIVE joinBy(_, _)
joinBy(xs, sep) ==
    IF xs = <<>> THEN <<>>
    ELSE IF Len(xs) = 1 THEN xs[1]
    ELSE xs[1] \o <<sep>> \o joinBy(Tail(xs), sep)

\* lines: the header, joined as it is, and one line for each record
lines(rs) ==
    <<joinBy(header, ",")>>
        \o [i \in 1..Len(rs) |-> joinBy(map(cells(rs[i]), quote), ",")]

\* the records the export is checked on: a complete record whose closest URL
\* is any text of up to MaxCell pieces with quotes, commas and newlines, an
\* error record and a record still queued
MaxCell == 2
MaxCsvRows == 2

CsvPieces == {<<"a", "\"">>, <<",">>, <<"\n">>}

RECURSIVE CellsOf(_)
CellsOf(n) ==
    IF n = 0 THEN {<<>>}
    ELSE CellsOf(n - 1) \cup {t \o p : t \in CellsOf(n - 1), p \in CsvPieces}

CsvRecords ==
    {[domain |-> <<"a", ".", "c", "o">>, status |-> <<"c", "o", "m", "p", "l", "e", "t", "e">>,
      years |-> <<"1", " ", "y", "e", "a", "r", "s">>, firstYear |-> <<"2", "0", "0", "1">>,
      lastYear |-> <<"2", "0", "0", "2">>, totalSnapshots |-> 12, timeMs |-> 7,
      closestTs |-> <<"2", "0", "0", "1", "0", "1", "0", "1", "0", "0", "0", "0", "0", "0">>, closestUrl |-> c] : c \in CellsOf(MaxCell)}
    \cup {[domain |-> <<"b", ".", "c", "o">>, status |-> <<"e", "r", "r", "o", "r">>,
            years |-> Null, firstYear |-> Null, lastYear |-> Null,
            totalSnapshots |-> NoTime, timeMs |-> 0,
            closestTs |-> Null, closestUrl |-> Null],
           [domain |-> <<"c", ".", "c", "o">>, status |-> <<"q", "u", "e", "u", "e", "d">>,
            years |-> Null, firstYear |-> Null, lastYear |-> Null,
            totalSnapshots |-> NoTime, timeMs |-> NoTime,
            closestTs |-> Null, closestUrl |-> Null]}

\* exportCSV of the pool, the parallel and the sequential variant
exportCSV ==
    /\ variant \in {"pool", "par", "seq"}
    /\ download' = join(lines(rows))
    /\ UNCHANGED <<variant, rows, progress, stats, batchInfo, isRunning,
                   concurrency, abortRef, runs, hist, text, relay>>

(* ======== the relay: src/proxy.js and src/api/cdx.js ======== *)
\* The relay is one of two handlers of the same shape: app.get("/cdx") of
\* proxy.js and the exported handler of api/cdx.js. It keeps nothing between
\* two requests.
Relays == {"proxy.js", "api/cdx.js"}

\* req.query.url and req.query.type: Undefined when the parameter is missing
QueryUrls == {Undefined, "", "a.com", "b.org"}
QueryTypes == {Undefined, "", "first", "last", "year", "all"}

\* what the upstream call comes to: fetch rejects, or it resolves with a
\* response of some status whose body is JSON or not
NetworkError == [rejected |-> TRUE, ok |-> FALSE, json |-> FALSE, data |-> Undefined]
Upstreams ==
    {NetworkError}
    \cup {[rejected |-> FALSE, ok |-> TRUE, json |-> TRUE, data |-> "[[\"timestamp\"],[\"20010101000000\"]]"],
          [rejected |-> FALSE, ok |-> TRUE, json |-> FALSE, data |-> "<html>"],
          [rejected |-> FALSE, ok |-> FALSE, json |-> TRUE, data |-> "{\"error\":\"upstream\"}"],
          [rejected |-> FALSE, ok |-> FALSE, json |-> FALSE, data |-> "<html>503"]}

\* the relay before a request arrives
Idle ==
    [pc |-> "idle", kind |-> Undefined, url |-> Undefined, type |-> Undefined,
     apiUrl |-> [type |-> Undefined, url |-> Undefined], query |-> <<>>,
     fetches |-> 0, upstream |-> NetworkError, res |-> <<>>]

\* The query of a timestamp-index request: its parameters in the order of the
\* template, each a pair of name and value, the url parameter left out.
\* apiUrl of the relay for a type
apiQuery(type) ==
    CASE type = "first" ->
           << <<"output", "json">>, <<"filter", "statuscode:200">>,
              <<"fl", "timestamp">>, <<"collapse", "digest">>,
              <<"limit", "1">>, <<"sort", "ascending">> >>
      [] type = "last" ->
           << <<"output", "json">>, <<"filter", "statuscode:200">>,
              <<"fl", "timestamp">>, <<"collapse", "digest">>,
              <<"limit", "1">>, <<"sort", "descending">> >>
      [] OTHER ->
           << <<"output", "json">>, <<"fl", "timestamp">>,
              <<"collapse", "timestamp:4">>, <<"filter", "statuscode:200">> >>

\* base of fetchFirstLastYears and what its two requests append to it
pool_base ==
    << <<"output", "json">>, <<"filter", "statuscode:200">>,
       <<"fl", "timestamp">>, <<"collapse", "digest">> >>

\* the requests the pool variant sends to the index itself, by type
pool_query(type) ==
    CASE type = "first" -> pool_base \o << <<"limit", "1">>, <<"sort", "ascending">> >>
      [] type = "last" -> pool_base \o << <<"limit", "1">>, <<"sort", "descending">> >>
      [] OTHER ->
           << <<"output", "json">>, <<"fl", "timestamp">>,
              <<"collapse", "timestamp:4">>, <<"filter", "statuscode:200">> >>

\* const type = req.query.type || "first"
proxy_type(type) == IF type \in {Undefined, ""} THEN "first" ELSE type

\* const { url, type = "first" } = req.query
api_type(type) == IF type = Undefined THEN "first" ELSE type

relayType(kind, type) ==
    IF kind = "proxy.js" THEN proxy_type(type) ELSE api_type(type)

\* res.status(n).json(body)
respond(rl, n, body) ==
    [rl EXCEPT !.pc = "done", !.res = Append(@, [status |-> n, body |-> body])]

\* the handler up to its first await
handler(kind, url, type) ==
    LET rl == [Idle EXCEPT !.kind = kind, !.url = url, !.type = type]
    IN  IF url \in {Undefined, ""} THEN respond(rl, 400, "Missing url param")
        ELSE IF relayType(kind, type) \in {"first", "last", "year"}
        THEN [rl EXCEPT !.pc = "fetch",
                        !.apiUrl = [type |-> relayType(kind, type), url |-> url],
                        !.query = apiQuery(relayType(kind, type)),
                        !.fetches = @ + 1]
        ELSE respond(rl, 400, "Invalid type param")

\* a request arrives
relay_request ==
    /\ relay.pc \in {"idle", "done"}
    /\ \E kind \in Relays, url \in QueryUrls, type \in QueryTypes :
            relay' = handler(kind, url, type)
    /\ UNCHANGED <<variant, rows, progress, stats, batchInfo, isRunning,
                   concurrency, abortRef, runs, hist, text, download>>

\* await fetch(apiUrl): a rejection goes to the catch
relay_fetched ==
    /\ relay.pc = "fetch"
    /\ \E u \in Upstreams :
            relay' = IF u.rejected
                     THEN respond([relay EXCEPT !.upstream = u], 500, "Fetch failed")
                     ELSE [relay EXCEPT !.pc = "json", !.upstream = u]
    /\ UNCHANGED <<variant, rows, progress, stats, batchInfo, isRunning,
                   concurrency, abortRef, runs, hist, text, download>>

\* await response.json(), then res.json(data): a body that is no JSON goes
\* to the catch; the status of the response is not looked at
relay_parsed ==
    /\ relay.pc = "json"
    /\ relay' = IF relay.upstream.json
                THEN respond(relay, 200, relay.upstream.data)
                ELSE respond(relay, 500, "Fetch failed")
    /\ UNCHANGED <<variant, rows, progress, stats, batchInfo, isRunning,
                   concurrency, abortRef, runs, hist, text, download>>

(* ============================ specification =========================== *)
\* the component as it is mounted: no scan yet
InitScan ==
    /\ variant \in Variants
    /\ rows = <<>>
    /\ progress = [done |-> 0, total |-> 0]
    /\ stats = [done |-> 0, total |-> 0, errors |-> 0, avg |-> 0]
    /\ batchInfo = [idx |-> 0, total |-> 0]
    /\ isRunning = FALSE
    /\ concurrency = 10
    /\ abortRef = 0
    /\ runs = <<>>
    /\ hist = <<>>

\* the text area as it is mounted: useState("")
InitText ==
    /\ raw = <<>>
    /\ domains = <<>>

\* The specifications of the scan follow neither the text nor the relay:
\* list(n) stands for the n domains extracted, ProxyOutcomes for what the
\* relay answers.
Init ==
    /\ InitScan
    /\ InitText
    /\ clip = <<>>
    /\ relay = Idle
    /\ download = NoFile

\* the clicks on the stop control and on the slider
Clicks ==
    \/ pool_stopScan
    \/ rec_stop
    \/ rec_setConcurrency
    \/ par_cancelScan
    \/ seq_cancelScan

\* the answers of the network and the timers inside a batch, the clock
\* showing rounded differences out of ms
Answers(ms) ==
    \/ pool_checkAvailable(ms)
    \/ pool_fetchFirstLastYears
    \/ pool_fetchSnapshotsByYearCount
    \/ rec_checkWayback
    \/ par_checkAvailable(ms)
    \/ par_retryDelay
    \/ par_fetchProxy(ms)
    \/ par_fetchProxyDelay(ms)
    \/ seq_checkAvailable(ms)
    \/ seq_attemptDelay
    \/ seq_fetchProxy(ms)

\* what happens after a start
Events(ms) == Clicks \/ Answers(ms)

\* the clicks on the start control, in a session of at most maxRuns runs
Starts(maxRuns, maxDomains, parDomains, seqDomains) ==
    \/ pool_startScan(maxRuns, maxDomains)
    \/ rec_start(maxRuns, maxDomains)
    \/ par_startScan(maxRuns, parDomains)
    \/ seq_startScan(maxRuns, seqDomains)

\* the timers between two batches
BatchDelays ==
    \/ par_batchDelay
    \/ seq_batchDelay

\* the clock of a run whose every lookup takes one millisecond
UnitClock == {1}

\* One run: the first run of a session, to its return.
Next == Starts(1, MaxDomains, RetryDomains, RetryDomains) \/ Events(UnitClock) \/ BatchDelays

Spec == Init /\ [][Next]_vars

\* A session: runs started one after the other, a run being started as soon
\* as the start control is enabled again, also while requests of an earlier
\* run are still in flight. The lists are of one batch, so that no timer
\* between batches is ever set.
NextSession ==
    Starts(MaxRuns, SessionDomains, SessionDomains, SessionDomains)
        \/ Events(UnitClock)

SpecSession == Init /\ [][NextSession]_vars

\* One run over a list of one batch, the clock showing every rounded
\* difference from 0 to MaxMs. The lists of "par", whose domains are all in
\* flight at once, are shorter by one.
NextTimed ==
    Starts(1, TimedDomains, TimedParDomains, TimedDomains) \/ Events(0..MaxMs)

SpecTimed == Init /\ [][NextTimed]_vars

\* the text area alone: the user holds a text, the handlers take it
InitTyped ==
    /\ InitScan
    /\ InitText
    /\ clip \in TextsOf(MaxPieces)
    /\ relay = Idle
    /\ download = NoFile

NextText ==
    \/ onChange
    \/ rec_handleInputChange

SpecText == InitTyped /\ [][NextText]_vars

\* the relay alone
NextRelay ==
    \/ relay_request
    \/ relay_fetched
    \/ relay_parsed

SpecRelay == Init /\ [][NextRelay]_vars

\* the export alone: the collection holds up to MaxCsvRows records
InitCsv ==
    /\ variant \in {"pool", "par", "seq"}
    /\ rows \in UNION {[1..n -> CsvRecords] : n \in 0..MaxCsvRows}
    /\ progress = [done |-> 0, total |-> 0]
    /\ stats = [done |-> 0, total |-> 0, errors |-> 0, avg |-> 0]
    /\ batchInfo = [idx |-> 0, total |-> 0]
    /\ isRunning = FALSE
    /\ concurrency = 10
    /\ abortRef = 0
    /\ runs = <<>>
    /\ hist = <<>>
    /\ InitText
    /\ clip = <<>>
    /\ relay = Idle
    /\ download = NoFile

NextCsv == exportCSV

SpecCsv == InitCsv /\ [][NextCsv]_vars

\* a request or a timer of some run is pending: the states in which a step
\* of Answers or of BatchDelays is possible
Pending ==
    \E r \in RunIds : DOMAIN runs[r].tasks # {} \/ runs[r].pc = "delay"

\* a request of a run is answered or one of its timers fires: the steps of
\* Answers and of BatchDelays, and no click, change the calls a run waits for
RunStep ==
    \E r \in RunIds :
        /\ r <= Len(runs')
        /\ runs'[r].tasks # runs[r].tasks \/ runs'[r].pc # runs[r].pc

\* Every request is answered and every timer fires: weak fairness of the
\* steps of the network and of the timers,
\*     WF_vars(Answers(UnitClock) \/ BatchDelays),
\* with its two halves written out: at infinitely many states nothing is
\* pending, or infinitely many steps are such steps. No click is ever bound
\* to happen.
Fairness == ([]<>(~ Pending)) \/ ([]<><<RunStep>>_vars)

\* One run in which every request is answered and every timer fires.
SpecFair == Spec /\ Fairness

(* =============================== claims =============================== *)
Idx(r) == 0..(runs[r].n - 1)

\* the size of a part ("pool") or of a batch ("par", "seq")
SliceSize == IF variant = "pool" THEN PART_SIZE ELSE BATCH_SIZE

CeilDiv(n, b) == (n + b - 1) \div b

Returned(r) == runs[r].pc = "returned"

\* the domains run r has started and not yet settled
InFlight(r) == {i \in Idx(r) : hist[r].marks[i] > hist[r].settles[i]}

\* the statuses of a record whose lookup is over: "rec" stores the status of
\* checkWayback, the others "complete"
Settled == IF variant = "rec" THEN {"archived", "not_found", "error"}
                              ELSE {"complete", "error"}

\* C1: a run that is never cancelled enters exactly ceil(N/B) parts or batches
\* and, when the scan function returns, every record is `complete` or `error`
\* ("pool", "par", "seq"; for any mix of answers).
C1_RunCompletes ==
    variant \in {"pool", "par", "seq"} =>
        \A r \in RunIds :
            (Returned(r) /\ ~ runs[r].aborted) =>
                /\ hist[r].batches = CeilDiv(runs[r].n, SliceSize)
                /\ \A i \in Idx(r) : At(rows, i).status \in {"complete", "error"}

\* a run of two batches or more has returned, not cancelled, with a record
\* `complete` and a record `error`
C1_Witness ==
    /\ variant \in {"pool", "par", "seq"}
    /\ \E r \in RunIds :
         /\ Returned(r) /\ ~ runs[r].aborted
         /\ runs[r].n > SliceSize
         /\ \E i, k \in Idx(r) :
              At(rows, i).status = "complete" /\ At(rows, k).status = "error"

\* C2: in the retrying scanners a domain whose first availability lookup
\* fails and whose second succeeds never has status `error` or an error
\* message on its record, and is `complete` once settled.
C2_RetrySucceeds ==
    variant \in {"par", "seq"} =>
        \A r \in RunIds : \A i \in Idx(r) :
            hist[r].answers[i] = <<"fail", "ok">> =>
                /\ At(rows, i).status # "error"
                /\ At(rows, i).errorMsg = Undefined
                /\ hist[r].settles[i] = 1 => At(rows, i).status = "complete"

\* a domain has settled after a failed first and a successful second lookup
C2_Witness ==
    /\ variant \in {"par", "seq"}
    /\ \E r \in RunIds : \E i \in Idx(r) :
         /\ hist[r].answers[i] = <<"fail", "ok">>
         /\ hist[r].settles[i] = 1
         /\ At(rows, i).status = "complete"

\* a step that writes the records, the statistics or the progress is a step
\* of the run abortRef holds
C3_Step ==
    (rows' # rows \/ stats' # stats \/ progress' # progress) =>
        \A r \in RunIds : runs'[r] # runs[r] => r = abortRef

\* C3: every step that writes the record collection or the statistics is a
\* step of the newest run, the one whose controller abortRef holds.
C3_OnlyNewestRunWrites == [][C3_Step]_vars

\* C4: stats.done never exceeds the total, and a cancelled run has issued no
\* availability lookup for a domain of a batch after the one it was in when
\* it was cancelled ("par", "seq").
C4_CountsAndNoLaterBatch ==
    /\ stats.done <= stats.total
    /\ variant \in {"par", "seq"} =>
         \A r \in RunIds :
             /\ runs[r].done <= runs[r].n
             /\ stats.done = runs[r].done
             /\ runs[r].aborted =>
                  \A i \in Idx(r) :
                      hist[r].lookups[i] > 0 => i \div BATCH_SIZE <= hist[r].bAtAbort

\* a run cancelled before its last batch has returned, with a part of its
\* domains settled
C4_Witness ==
    /\ variant \in {"par", "seq"}
    /\ \E r \in RunIds :
         /\ runs[r].aborted /\ Returned(r)
         /\ hist[r].bAtAbort + 1 < CeilDiv(runs[r].n, BATCH_SIZE)
         /\ stats.done > 0
         /\ stats.done < stats.total

\* a step of a cancelled run starts no domain and settles what it ends
C5_Step ==
    variant \in {"pool", "rec"} =>
        \A r \in RunIds :
            runs[r].aborted =>
                /\ \A i \in Idx(r) :
                       /\ hist'[r].marks[i] = hist[r].marks[i]
                       /\ hist'[r].lookups[i] = hist[r].lookups[i]
                       /\ hist[r].marks[i] = 0 => At(rows', i) = At(rows, i)
                /\ \A i \in DOMAIN runs[r].tasks :
                       i \notin DOMAIN runs'[r].tasks =>
                           /\ At(rows', i).status \in Settled
                           /\ runs'[r].done = runs[r].done + 1
                           /\ progress'.done = runs'[r].done

\* C5: once a run is cancelled, no step marks or looks up a domain it had not
\* started, the records of those domains stay as they are, and every step
\* that ends a lookup in flight writes a settled status to its record and
\* counts it in `done` and in the progress ("pool", "rec").
C5_CancelStopsNewDomains == [][C5_Step]_vars

\* a cancelled run has returned and left a domain it never started `queued`;
\* a run that is cancelled has a lookup in flight, which settled afterwards
C5_Witness ==
    /\ variant \in {"pool", "rec"}
    /\ \E r \in RunIds :
         /\ runs[r].aborted /\ Returned(r)
         /\ runs[r].done >= 1
         /\ \E i \in Idx(r) : hist[r].marks[i] = 0 /\ At(rows, i).status = "queued"

\* C6: a cancelled run of the retrying scanners issues no HTTP request after
\* the cancellation, neither a retry of the availability lookup nor a request
\* of the enrichment.
C6_NoRequestAfterCancel ==
    variant \in {"par", "seq"} => \A r \in RunIds : ~ hist[r].lateReq

\* C7: in a run that is not cancelled a failed lookup stops nothing: the run
\* is at work until it returns, the record of a domain whose last lookup
\* failed is `error` once settled, and at the return every domain has been
\* looked up and is `complete` or `error` ("pool", "par", "seq").
C7_FailureIsContained ==
    variant \in {"pool", "par", "seq"} =>
        \A r \in RunIds :
            ~ runs[r].aborted =>
                /\ ~ Returned(r) => (DOMAIN runs[r].tasks # {} \/ runs[r].pc = "delay")
                /\ \A i \in Idx(r) :
                       /\ hist[r].settles[i] = 1
                       /\ hist[r].answers[i] # <<>>
                       /\ hist[r].answers[i][Len(hist[r].answers[i])] = "fail"
                       => At(rows, i).status = "error"
                /\ Returned(r) =>
                       \A i \in Idx(r) :
                           /\ hist[r].lookups[i] >= 1
                           /\ hist[r].settles[i] = 1
                           /\ At(rows, i).status \in {"complete", "error"}

\* a run has returned, not cancelled: the first domain is `error` and a
\* domain of a later batch is `complete`
C7_Witness ==
    /\ variant \in {"pool", "par", "seq"}
    /\ \E r \in RunIds :
         /\ Returned(r) /\ ~ runs[r].aborted
         /\ At(rows, 0).status = "error"
         /\ \E k \in Idx(r) : k \div SliceSize >= 1 /\ At(rows, k).status = "complete"

\* C8: a run has issued a lookup for a domain of a part or batch only when
\* every domain it started in an earlier part or batch has settled
\* ("pool", "par").
C8_BatchesInSequence ==
    variant \in {"pool", "par"} =>
        \A r \in RunIds : \A i, k \in Idx(r) :
            (k \div SliceSize < i \div SliceSize /\ hist[r].lookups[i] > 0) =>
                /\ k \notin DOMAIN runs[r].tasks
                /\ hist[r].marks[k] > 0 => hist[r].settles[k] = hist[r].marks[k]

\* a lookup of the second part or batch is in flight, and two domains of the
\* first have settled
C8_Witness ==
    /\ variant \in {"pool", "par"}
    /\ \E r \in RunIds : \E i \in DOMAIN runs[r].tasks :
         /\ i \div SliceSize = 1
         /\ hist[r].settles[0] = 1 /\ hist[r].settles[1] = 1

\* C9: in the pool scanners every index is marked `checking` at most once, is
\* looked up once when marked and settles at most once; when a run that was
\* not cancelled returns, every index was marked once and settled once and
\* the progress counter is N ("pool", "rec").
C9_EachIndexOnce ==
    variant \in {"pool", "rec"} =>
        \A r \in RunIds :
            /\ \A i \in Idx(r) :
                   /\ hist[r].marks[i] <= 1
                   /\ hist[r].lookups[i] = hist[r].marks[i]
                   /\ hist[r].settles[i] <= hist[r].marks[i]
            /\ (Returned(r) /\ ~ runs[r].aborted) =>
                   /\ \A i \in Idx(r) : hist[r].marks[i] = 1 /\ hist[r].settles[i] = 1
                   /\ runs[r].done = runs[r].n
                   /\ progress.done = runs[r].n

\* a run over more domains than it has workers has returned, not cancelled
C9_Witness ==
    /\ variant \in {"pool", "rec"}
    /\ \E r \in RunIds :
         /\ Returned(r) /\ ~ runs[r].aborted
         /\ runs[r].n > CONCURRENCY
         /\ runs[r].n > runs[r].conc
         /\ progress.done = runs[r].n

\* C10: the domains of a run in flight are at most CONCURRENCY in "pool" and
\* at most the value of `concurrency` read at the start in "rec".
C10_BoundedInFlight ==
    /\ variant = "pool" =>
         \A r \in RunIds : Cardinality(InFlight(r)) <= CONCURRENCY
    /\ variant = "rec" =>
         \A r \in RunIds : Cardinality(InFlight(r)) <= runs[r].conc

\* CONCURRENCY domains of a part are in flight while a domain of the same
\* part is waiting for a worker
C10_Witness ==
    /\ variant = "pool"
    /\ \E r \in RunIds :
         /\ Cardinality(InFlight(r)) = CONCURRENCY
         /\ runs[r].idx < Len(pool_parts(runs[r])[runs[r].b + 1])

\* the indexes whose record run r has settled without error
Good(r) ==
    {i \in Idx(r) : hist[r].settles[i] >= 1 /\ At(rows, i).status = "complete"}

\* the indexes whose record run r has settled as an error
Bad(r) ==
    {i \in Idx(r) : hist[r].settles[i] >= 1 /\ At(rows, i).status = "error"}

RECURSIVE SumOver(_, _)
\* the sum of f over the indexes in S
SumOver(f, S) ==
    IF S = {} THEN 0
    ELSE LET k == CHOOSE x \in S : TRUE IN f[k] + SumOver(f, S \ {k})

\* the rounded mean of f over S, 0 when S is empty
MeanOver(f, S) == RoundDiv(SumOver(f, S), Max(1, Cardinality(S)))

\* C11: in the retrying scanners stats.avg is, after every record update, the
\* rounded mean of the timeMs stored in the records that settled without
\* error, also when a domain needed a retry or an enrichment call.
C11_AvgIsMeanOfRecordLatencies ==
    variant \in {"par", "seq"} =>
        \A r \in RunIds :
            stats.avg = MeanOver([i \in Idx(r) |-> At(rows, i).timeMs], Good(r))

\* C12: error records never enter the average: stats.avg is the rounded sum
\* of the latencies the successful lookups returned, divided by the number of
\* records settled without error ("par", "seq"); the average the header of
\* "pool" shows is the rounded mean of the timeMs of its `complete` records.
C12_ErrorsOutsideAverage ==
    /\ variant \in {"par", "seq"} =>
         \A r \in RunIds : stats.avg = MeanOver(hist[r].lat, Good(r))
    /\ variant = "pool" =>
         pool_avgMs(rows) =
             MeanOver([k \in 1..Len(rows) |-> rows[k].timeMs],
                      {k \in 1..Len(rows) : rows[k].status = "complete"})

\* a lookup that returned latency MaxMs has settled without error, another
\* domain has settled as an error, and the average is MaxMs
C12_Witness ==
    /\ variant \in {"par", "seq"}
    /\ \E r \in RunIds : \E i \in Good(r) :
         /\ hist[r].lat[i] >= 2
         /\ Good(r) = {i}
         /\ Bad(r) # {}
         /\ stats.avg = hist[r].lat[i]

\* C13: a record with status `complete` has timeMs >= 1 and a record with
\* status `error` has timeMs 0, also when the measured time rounds to 0
\* ("pool", "par", "seq").
C13_LatencyByStatus ==
    variant \in {"pool", "par", "seq"} =>
        \A k \in 1..Len(rows) :
            /\ rows[k].status = "complete" => rows[k].timeMs >= 1
            /\ rows[k].status = "error" => rows[k].timeMs = 0

\* a record is `complete` with timeMs 1 after a lookup whose measured time
\* rounded to 0, and another record is `error`
C13_Witness ==
    /\ variant \in {"pool", "seq"}
    /\ \E r \in RunIds : \E i \in Good(r) :
         /\ hist[r].raw[i] = 0
         /\ At(rows, i).timeMs = 1
         /\ Bad(r) # {}

\* e.message of a failed availability lookup in the scanner deployed
errorText(kind) ==
    IF variant = "par" THEN par_errorText(kind) ELSE seq_errorText(kind)

\* C14: in the retrying scanners the record of a domain whose two
\* availability lookups both failed is `error` once settled, with the message
\* of the second failure, timeMs 0 and a null closest snapshot.
C14_LastFailureReported ==
    variant \in {"par", "seq"} =>
        \A r \in RunIds : \A i \in Idx(r) :
            (hist[r].settles[i] = 1 /\ hist[r].answers[i] = <<"fail", "fail">>) =>
                /\ At(rows, i).status = "error"
                /\ At(rows, i).errorMsg = errorText(hist[r].failing[i][2])
                /\ At(rows, i).timeMs = 0
                /\ At(rows, i).closest = NullClosest

\* a domain has settled after two failed lookups of different kinds, and its
\* record carries the message of the second
C14_Witness ==
    /\ variant \in {"par", "seq"}
    /\ \E r \in RunIds : \E i \in Idx(r) :
         /\ hist[r].settles[i] = 1
         /\ hist[r].failing[i] = <<"network", "http">>
         /\ At(rows, i).errorMsg = errorText("http")

\* C15: in the retrying scanners a domain that was started has had one or two
\* availability lookups, a second one only after its own first one failed,
\* and it settles only after a lookup that succeeded or after two of its own
\* that failed, whatever happened to the other domains.
C15_RetriesPerDomain ==
    variant \in {"par", "seq"} =>
        \A r \in RunIds : \A i \in Idx(r) :
            /\ hist[r].marks[i] > 0 => hist[r].lookups[i] \in 1..2
            /\ hist[r].marks[i] = 0 => hist[r].lookups[i] = 0
            /\ hist[r].lookups[i] = 2 =>
                   Len(hist[r].answers[i]) >= 1 /\ hist[r].answers[i][1] = "fail"
            /\ hist[r].settles[i] >= 1 =>
                   hist[r].answers[i] \in
                       {<<"ok">>, <<"fail", "ok">>, <<"fail", "fail">>}

\* in one run a domain has settled after two failed lookups and another one
\* after a failed and a successful lookup
C15_Witness ==
    /\ variant \in {"par", "seq"}
    /\ \E r \in RunIds : \E i, k \in Idx(r) :
         /\ hist[r].settles[i] = 1 /\ hist[r].answers[i] = <<"fail", "fail">>
         /\ hist[r].settles[k] = 1 /\ hist[r].answers[k] = <<"fail", "ok">>
         /\ hist[r].lookups[i] = 2 /\ hist[r].lookups[k] = 2

\* C16: when every request is answered and every timer fires, a run that was
\* started returns and the running flag is false, whether or not it is
\* cancelled and whatever lookups fail.
C16_RunTerminates ==
    (Len(runs) >= 1) ~> (Len(runs) >= 1 /\ Returned(1) /\ ~ isRunning)

\* a cancelled run has returned with the flag reset, after a lookup that
\* failed; and so has a run of two batches that was not cancelled
C16_Witness ==
    /\ Len(runs) >= 1 /\ Returned(1) /\ ~ isRunning
    /\ \E i \in Idx(1) : At(rows, i).status = "error"
    /\ \/ runs[1].aborted /\ runs[1].done < runs[1].n
       \/ ~ runs[1].aborted /\ hist[1].batches >= 2

\* the records with one of the statuses in S
WithStatus(S) == {k \in 1..Len(rows) : rows[k].status \in S}

\* C17: in every state of a run of the retrying scanners stats.done is the
\* number of records that are `complete` or `error` and stats.errors the
\* number of records that are `error`.
C17_StatsMatchRecords ==
    variant \in {"par", "seq"} =>
        /\ stats.done = Cardinality(WithStatus({"complete", "error"}))
        /\ stats.errors = Cardinality(WithStatus({"error"}))

\* a record is `complete`, another `error`, and a lookup is in flight
C17_Witness ==
    /\ variant \in {"par", "seq"}
    /\ stats.done = 2 /\ stats.errors = 1
    /\ WithStatus({"complete"}) # {}
    /\ \E r \in RunIds : DOMAIN runs[r].tasks # {}

\* a step leaves the status of a record of the worker pool, or moves it from
\* `queued` to `checking` or from `checking` to `complete` or `error`
C18_Step ==
    variant = "pool" =>
        \A k \in 1..Len(rows) :
            /\ k <= Len(rows')
            /\ \/ rows'[k].status = rows[k].status
               \/ rows[k].status = "queued" /\ rows'[k].status = "checking"
               \/ rows[k].status = "checking"
                      /\ rows'[k].status \in {"complete", "error"}

\* C18: within a run of the worker-pool scanner the status of a record only
\* moves along queued -> checking -> {complete | error}: never back, never
\* out of `complete` or `error`, never to those without `checking`.
C18_StatusMovesForward == [][C18_Step]_vars

\* the records of a run are `complete`, `error`, `checking` and `queued`
C18_Witness ==
    /\ variant = "pool"
    /\ \A st \in {"queued", "checking", "complete", "error"} : WithStatus({st}) # {}

\* C19: in the worker pool the record of a domain whose availability lookup
\* succeeded is `complete` once settled, with the lookup's latency and
\* closest snapshot, whatever the requests to the timestamp index did.
C19_EnrichmentOnlyDegrades ==
    variant = "pool" =>
        \A r \in RunIds : \A i \in Idx(r) :
            (hist[r].settles[i] = 1 /\ hist[r].answers[i] = <<"ok">>) =>
                /\ At(rows, i).status = "complete"
                /\ At(rows, i).timeMs = hist[r].lat[i]

\* C20: in the retrying scanners enrichByCDX is called at most once for a
\* domain, and only after a lookup of that domain answered archived: the
\* domain's latest lookup succeeded and its answer, held by the task and then
\* by the record, has a closest snapshot.
C20_EnrichOnlyArchived ==
    variant \in {"par", "seq"} =>
        \A r \in RunIds : \A i \in Idx(r) :
            /\ hist[r].enrich[i] <= 1
            /\ hist[r].enrich[i] = 1 =>
                   /\ hist[r].answers[i] # <<>>
                   /\ hist[r].answers[i][Len(hist[r].answers[i])] = "ok"
                   /\ i \in DOMAIN runs[r].tasks => runs[r].tasks[i].archived
                   /\ hist[r].settles[i] >= 1 => At(rows, i).closest = closestOf(Snapshot)

\* in one run a domain was enriched once, after a failed lookup and one that
\* answered archived; a domain that is not archived and a domain whose
\* lookups failed have settled without enrichment
C20_Witness ==
    /\ variant \in {"par", "seq"}
    /\ \E r \in RunIds : \E i, k, j \in Idx(r) :
         /\ hist[r].settles[i] = 1 /\ hist[r].enrich[i] = 1
         /\ hist[r].answers[i] = <<"fail", "ok">>
         /\ At(rows, i).closest = closestOf(Snapshot)
         /\ hist[r].settles[k] = 1 /\ hist[r].enrich[k] = 0
         /\ At(rows, k).status = "complete" /\ At(rows, k).closest = NullClosest
         /\ hist[r].settles[j] = 1 /\ hist[r].enrich[j] = 0
         /\ At(rows, j).status = "error"

\* the calls of fetchProxy that enrichByCDX has ended before it calls
\* fetchProxy(stage), each of them with one GET request or more
stagesBefore(stage) ==
    CASE stage \in {"first", "firstWait"} -> 0
      [] stage \in {"last", "lastWait"} -> 1
      [] OTHER -> 2

\* C21: for one domain enrichByCDX of the parallel scanner has issued at most
\* three GET requests: a domain that is at try k (counted from 0) of a call of
\* fetchProxy has had a request in every call before it and k + 1 in this one.
C21_AtMostThreeGets ==
    variant = "par" =>
        \A r \in RunIds : \A i \in DOMAIN runs[r].tasks :
            runs[r].tasks[i].stage \in
                {"first", "firstWait", "last", "lastWait", "year", "yearWait"} =>
                stagesBefore(runs[r].tasks[i].stage) + runs[r].tasks[i].k + 1 <= 3

\* C22: in the retrying scanners the record of a domain whose latest
\* availability lookup succeeded is `complete` once settled; its `archived`
\* is true exactly when the body had archived_snapshots.closest; its
\* closestUrl and closestTs are the url and the timestamp of that snapshot,
\* and both null when the body had none.
C22_ResponseToRecord ==
    variant \in {"par", "seq"} =>
        \A r \in RunIds : \A i \in Idx(r) :
            (/\ hist[r].settles[i] = 1
             /\ hist[r].answers[i] # <<>>
             /\ hist[r].answers[i][Len(hist[r].answers[i])] = "ok") =>
                LET body == hist[r].closest[i]
                    row == At(rows, i)
                IN  /\ row.status = "complete"
                    /\ row.archived = "true" <=> body.present
                    /\ row.archived = "false" <=> ~ body.present
                    /\ body.present =>
                           /\ row.closest.url = body.url
                           /\ row.closest.ts = body.timestamp
                    /\ ~ body.present => row.closest = NullClosest

\* in one run a domain has settled after an answer with a closest snapshot
\* and another after an answer without
C22_Witness ==
    /\ variant = "seq"
    /\ \E r \in RunIds : \E i, k \in Idx(r) :
         /\ hist[r].settles[i] = 1 /\ hist[r].closest[i] = Snapshot
         /\ At(rows, i).archived = "true"
         /\ At(rows, i).closest.ts = "20010101000000"
         /\ hist[r].settles[k] = 1 /\ hist[r].answers[k] = <<"ok">>
         /\ hist[r].closest[k] = NoSnapshot
         /\ At(rows, k).archived = "false"


\* the token separators of the extractors but the concurrency-slider one
Separators == whitespace \cup {","}

\* C23: extraction is idempotent: extracting the extracted domains, joined
\* by newlines, yields the same sequence again (sequential variant), and the
\* text area of the concurrency-slider variant, which holds the extracted
\* domains joined by newlines, yields the domains extracted from what was typed.
C23_Idempotent ==
    /\ variant = "seq" =>
            seq_extractDomainsFromText(join(domains)) = domains
    /\ (variant = "rec" /\ raw # <<>>) =>
            domains = rec_extractDomainsFromText(clip)

NoDouble(xs) == \A i, j \in 1..Len(xs) : xs[i] = xs[j] => i = j

\* C24: the extractor of the pool variant never returns the same domain
\* twice: the doubles are removed after the lower-casing.
C24_NoDouble ==
    variant = "pool" => NoDouble(domains)

\* the text area holds the text typed, and the text is one token
OneToken ==
    /\ clip # <<>>
    /\ raw = clip
    /\ chars(clip) \cap Separators = {}

\* C25: of one token the extractor of the sequential variant yields: for an
\* http(s) URL its hostname, lower-cased and without a leading www.; for an
\* e-mail address local@host the host only; nothing for a token without a dot.
C25_Token ==
    (variant = "seq" /\ OneToken) =>
        /\ (/\ urlRe(clip)
            /\ hostname(clip).ok
            /\ domainRe(dropWww(hostname(clip).host)))
              => domains = <<dropWww(hostname(clip).host)>>
        /\ (/\ ~ urlRe(clip)
            /\ Len(split(clip, {"@"})) = 2
            /\ split(clip, {"@"})[1] # <<>>
            /\ domainRe(dropWww(toLowerCase(split(clip, {"@"})[2]))))
              => domains = <<dropWww(toLowerCase(split(clip, {"@"})[2]))>>
        /\ "." \notin chars(clip) => domains = <<>>

\* C26: a valid hostname followed by one dot is extracted without the dot,
\* not dropped (pool and sequential variant).
C26_TrailingDot ==
    (/\ variant \in {"pool", "seq"}
     /\ OneToken
     /\ clip[Len(clip)] = "."
     /\ ~ startsWith(toLowerCase(clip), www)
     /\ domainRe(toLowerCase(SubSeq(clip, 1, Len(clip) - 1))))
        => domains = <<toLowerCase(SubSeq(clip, 1, Len(clip) - 1))>>

\* a valid domain: two labels or more, every label 1 to 63 of [a-z0-9-] with
\* no hyphen at an edge, 253 characters at most, the final label two letters
\* or more, or a label in xn--
ValidDomain(d) ==
    LET labels == split(d, {"."})
        final == labels[Len(labels)]
    IN  /\ Len(labels) >= 2
        /\ Len(d) <= NameMax
        /\ \A k \in 1..Len(labels) : isLabel(labels[k])
        /\ \/ Len(final) >= 2 /\ chars(final) \subseteq letters
           \/ startsWith(final, <<"x", "n", "-", "-">>)

\* C27: every string the extractor of the concurrency-slider variant returns
\* is a valid domain.
C27_ValidOnly ==
    variant = "rec" => \A k \in 1..Len(domains) : ValidDomain(domains[k])

\* where d stands in t
occurrences(d, t) ==
    {k \in 1..(Len(t) - Len(d) + 1) : SubSeq(t, k, k + Len(d) - 1) = d}

\* the text is a list of valid domains, none with a leading www.
CleanList(t) ==
    /\ chars(t) \cap {";"} = {}
    /\ \A k \in 1..Len(tokens(t, Separators)) :
            /\ domainRe(toLowerCase(tokens(t, Separators)[k]))
            /\ ~ startsWith(toLowerCase(tokens(t, Separators)[k]), www)

\* C28: the extractor returns MaxExtracted domains at most; of a list of
\* valid domains it returns the first MaxExtracted distinct ones in the order
\* of the list; and two domains it returns that stand once in the text each
\* are returned in the order of the text.
C28_FirstInOrder ==
    /\ Len(domains) <= MaxExtracted
    /\ (raw # <<>> /\ CleanList(clip)) =>
            domains = slice(uniq(map(tokens(clip, Separators), toLowerCase)),
                            0, MaxExtracted)
    /\ raw # <<>> =>
            \A i, j \in 1..Len(domains) :
                (/\ i < j
                 /\ Cardinality(occurrences(domains[i], toLowerCase(clip))) = 1
                 /\ Cardinality(occurrences(domains[j], toLowerCase(clip))) = 1)
                    => \A a \in occurrences(domains[i], toLowerCase(clip)) :
                       \A b \in occurrences(domains[j], toLowerCase(clip)) :
                            a < b


\* C29: the relay answers 400, and makes no upstream request, whenever url is
\* missing or empty and whenever type is supplied with a value other than
\* first, last and year; a request without type is treated as first.
C29_BadRequest ==
    relay.pc # "idle" =>
        /\ (\/ relay.url \in {Undefined, ""}
            \/ relay.type \notin {Undefined, "first", "last", "year"}) =>
                /\ relay.pc = "done"
                /\ Len(relay.res) = 1
                /\ relay.res[1].status = 400
                /\ relay.fetches = 0
        /\ (relay.url \notin {Undefined, ""} /\ relay.type = Undefined) =>
                /\ relay.fetches = 1
                /\ relay.apiUrl = [type |-> "first", url |-> relay.url]

\* the request is valid and the relay has answered it
ValidDone ==
    /\ relay.pc = "done"
    /\ relay.url \notin {Undefined, ""}
    /\ relay.type \in {Undefined, "first", "last", "year"}

UpstreamFailed(u) == u.rejected \/ ~ u.json \/ ~ u.ok

\* C30: to a valid request the relay answers 500 with an error payload
\* whenever the upstream call fails (network error, body that is no JSON,
\* non-success status), 200 with the upstream JSON only when the upstream
\* call succeeded, and one response exactly.
C30_UpstreamOutcome ==
    ValidDone =>
        /\ Len(relay.res) = 1
        /\ UpstreamFailed(relay.upstream) =>
                relay.res[1] = [status |-> 500, body |-> "Fetch failed"]
        /\ relay.res[1].status = 200 =>
                /\ ~ UpstreamFailed(relay.upstream)
                /\ relay.res[1].body = relay.upstream.data


\* the query holds the parameter name=value
Carries(query, name, value) ==
    \E k \in 1..Len(query) : query[k] = <<name, value>>

\* the query holds no parameter of that name
Without(query, name) ==
    \A k \in 1..Len(query) : query[k][1] # name

\* what the claim asks of the query of a type
QueryAsClaimed(query, type) ==
    /\ Carries(query, "filter", "statuscode:200")
    /\ Carries(query, "collapse", "digest")
    /\ type = "first" =>
            Carries(query, "sort", "ascending") /\ Carries(query, "limit", "1")
    /\ type = "last" =>
            Carries(query, "sort", "descending") /\ Carries(query, "limit", "1")
    /\ type = "year" =>
            Carries(query, "collapse", "timestamp:4") /\ Without(query, "limit")

\* C31: each of the three timestamp-index queries, of type first, last and
\* year, carries the filter to HTTP 200 snapshots and the collapse on the
\* content digest; first adds the ascending sort with limit 1, last the
\* descending sort with limit 1, year the collapse on the 4-digit timestamp
\* prefix with no limit. Said of the query the relay has built for a request
\* and of the queries the pool variant sends itself.
C31_QueryParameters ==
    /\ relay.fetches = 1 => QueryAsClaimed(relay.query, relay.apiUrl.type)
    /\ relay.fetches = 1 => QueryAsClaimed(pool_query(relay.apiUrl.type), relay.apiUrl.type)


\* Standard CSV: a field in quotes runs to the quote that closes it, a
\* doubled quote inside it is one quote; a comma outside quotes ends the
\* field, a line feed outside quotes the row. A position is outside quotes
\* when the number of quotes before it is even.
\* the positions of t where the character c ends a field or a row
breaks(t, c) ==
    LET quotes == {j \in 1..Len(t) : t[j] = "\""}
    IN  {k \in 1..Len(t) :
            t[k] = c /\ Cardinality({q \in quotes : q < k}) % 2 = 0}

\* t cut at a set of positions
cutAt(t, B) ==
    LET ends == B \cup {Len(t) + 1}
    IN  [i \in 1..Cardinality(ends) |->
            LET hi == CHOOSE b \in ends : Cardinality({x \in ends : x < b}) = i - 1
                lower == {x \in B : x < hi}
                lo == IF lower = {} THEN 0
                      ELSE CHOOSE x \in lower : \A y \in lower : y <= x
            IN  SubSeq(t, lo + 1, hi - 1)]

\* of two quotes in a row the second is dropped
RECURSIVE undoubled(_)
undoubled(x) ==
    IF x = <<>> THEN <<>>
    ELSE IF Len(x) >= 2 /\ x[1] = "\"" /\ x[2] = "\""
         THEN <<"\"">> \o undoubled(SubSeq(x, 3, Len(x)))
    ELSE <<x[1]>> \o undoubled(Tail(x))

\* the value of a field: without the quotes around it
unquoted(f) ==
    IF Len(f) >= 2 /\ f[1] = "\"" /\ f[Len(f)] = "\""
    THEN undoubled(SubSeq(f, 2, Len(f) - 1))
    ELSE f

parseRow(line) == map(cutAt(line, breaks(line, ",")), unquoted)

parseCSV(t) == map(cutAt(t, breaks(t, "\n")), parseRow)

\* the value of a field of a record as a string: the empty string for null
\* and for a missing text, 0 for a missing number
FieldStrings(r) ==
    << r.domain, r.status,
       IF r.years = Null THEN <<>> ELSE r.years,
       IF r.firstYear = Null THEN <<>> ELSE r.firstYear,
       IF r.lastYear = Null THEN <<>> ELSE r.lastYear,
       toString(IF r.totalSnapshots = NoTime THEN 0 ELSE r.totalSnapshots),
       toString(IF r.timeMs = NoTime THEN 0 ELSE r.timeMs),
       IF r.closestTs = Null THEN <<>> ELSE r.closestTs,
       IF r.closestUrl = Null THEN <<>> ELSE r.closestUrl >>

\* C32: the CSV export round-trips: parsing the exported text with standard
\* CSV quoting yields, after the row of the nine column names, one row for
\* each record, in the order of the records, with nine fields whose values
\* are the field strings of the record, quotes, commas and newlines included.
C32_CsvRoundTrip ==
    download # NoFile =>
        LET parsed == parseCSV(download)
        IN  /\ Len(parsed) = Len(rows) + 1
            /\ parsed[1] = header
            /\ \A i \in 1..Len(rows) :
                    /\ Len(parsed[i + 1]) = 9
                    /\ parsed[i + 1] = FieldStrings(rows[i])

\* a file has been exported of two records, the first with a quote in its
\* closest URL, the second with a newline, and the parser has read both back
C32_Witness ==
    /\ download # NoFile
    /\ Len(rows) = 2
    /\ rows[1].closestUrl # Null
    /\ rows[2].closestUrl # Null
    /\ "\"" \in chars(rows[1].closestUrl)
    /\ "\n" \in chars(rows[2].closestUrl)
    /\ parseCSV(download)[2][9] = rows[1].closestUrl
    /\ parseCSV(download)[3][9] = rows[2].closestUrl


\* the slices of a list put in a row again
RECURSIVE Flat(_)
Flat(parts) == IF parts = <<>> THEN <<>> ELSE parts[1] \o Flat(Tail(parts))

\* what the claim says of chunk(arr, B)
ChunkAsClaimed(arr, B) ==
    LET out == chunk(arr, B)
    IN  /\ Flat(out) = arr
        /\ Len(out) = CeilDiv(Len(arr), B)
        /\ \A k \in 1..(Len(out) - 1) : Len(out[k]) = B
        /\ out # <<>> => Len(out[Len(out)]) \in 1..B

\* C33: chunk(list, B) for B >= 1 returns contiguous slices that do not
\* overlap and whose concatenation is the list in order; every slice has B
\* elements but possibly the last, which has between 1 and B, and there are
\* ceil(N/B) slices, none for the empty list. Said of the list of every run,
\* of each of its prefixes, the empty one included, and of every B up to one
\* more than its length.
C33_ChunkSlices ==
    \A r \in RunIds :
        \A n \in 0..runs[r].n : \A B \in 1..(runs[r].n + 1) :
            ChunkAsClaimed(list(n), B)

\* a run of the pool variant whose list is cut into a full part and a
\* shorter last one
C33_Witness ==
    /\ variant = "pool"
    /\ \E r \in RunIds :
         /\ runs[r].n > PART_SIZE
         /\ Len(pool_parts(runs[r])) = 2
         /\ Len(pool_parts(runs[r])[1]) = PART_SIZE
         /\ Len(pool_parts(runs[r])[2]) \in 1..(PART_SIZE - 1)


\* C34: in the retrying scanners a record is `checking` only between the
\* start of its own lookup and the moment it settles: a record whose lookup
\* has not been started is `queued`, also after a cancellation.
C34_CheckingOnlyInFlight ==
    variant \in {"par", "seq"} =>
        \A r \in RunIds : \A i \in Idx(r) :
            /\ At(rows, i).status = "checking" => i \in InFlight(r)
            /\ hist[r].marks[i] = 0 => At(rows, i).status = "queued"


\* C35: in scanDomainsParallel the fixed inter-attempt delay is waited only
\* between a failed attempt and the attempt that follows it: whenever a
\* domain waits in that delay, the retry loop has a further attempt left, so
\* that a domain of k attempts waits k-1 delays and the last failed attempt
\* is settled as `error` without a further delay.
C35_DelayOnlyBetweenAttempts ==
    variant = "par" =>
        \A r \in RunIds : \A i \in DOMAIN runs[r].tasks :
            runs[r].tasks[i].stage = "retryDelay" =>
                par_retryLeft(runs[r].tasks[i].k + 1)


\* record i holds the domain at position i of the list of run r, there are
\* exactly N records, and every domain in flight is element j of the slice
\* the loop is at, with its index the slice's number times the slice size
\* plus j
InOwnPlace(rws, rns, r) ==
    LET run == rns[r]
        own == list(run.n)
        cut == IF variant = "pool" THEN pool_parts(run) ELSE par_batches(run)
    IN  /\ Len(rws) = run.n
        /\ \A i \in 0..(run.n - 1) : At(rws, i).domain = own[i + 1]
        /\ \A i \in DOMAIN run.tasks :
             /\ run.b < Len(cut)
             /\ \E j \in 0..(Len(cut[run.b + 1]) - 1) :
                  /\ i = run.b * SliceSize + j
                  /\ cut[run.b + 1][j + 1] = own[i + 1]

\* a record of the collection differs after the step
Rewritten(k) == k > Len(rows) \/ rows'[k] # rows[k]

C36_Step ==
    variant \in {"pool", "par"} =>
        /\ \A r \in 1..Len(runs') : InOwnPlace(rows', runs', r)
        /\ Len(runs') = Len(runs) =>
             \A k \in 1..Len(rows') :
                 Rewritten(k) =>
                     \E r \in RunIds :
                         /\ k - 1 \in DOMAIN runs[r].tasks \cup DOMAIN runs'[r].tasks
                         /\ \/ hist'[r].marks[k - 1] > hist[r].marks[k - 1]
                            \/ hist'[r].settles[k - 1] > hist[r].settles[k - 1]

\* C36: throughout a run of the worker pool or of the parallel scanner,
\* record i of the collection holds the domain at position i of the
\* extracted list and the collection has exactly N records; a domain in
\* flight has the index (slice number times slice size plus position in the
\* slice), and a step rewrites only the records of the domains it marks
\* `checking` or settles.
C36_RecordsKeepTheirIndex == [][C36_Step]_vars

\* the parallel scanner is in its second batch and has settled a record of
\* it, the records of the first batch being settled
C36_Witness ==
    /\ variant = "par"
    /\ \E r \in RunIds :
         /\ runs[r].n > BATCH_SIZE
         /\ runs[r].b = 1
         /\ hist[r].settles[BATCH_SIZE] = 1
         /\ At(rows, BATCH_SIZE).status \in Settled
         /\ At(rows, BATCH_SIZE).domain = list(runs[r].n)[BATCH_SIZE + 1]
         /\ At(rows, 0).status \in Settled


\* C37: while a run that has not been cancelled is still executing, the
\* running flag is true (the start control is disabled), also when an
\* earlier, cancelled run finishes its in-flight work during that run.
C37_RunningWhileExecuting ==
    \A r \in RunIds :
        (~ runs[r].aborted /\ ~ Returned(r)) => isRunning


\* the other of the two relays
otherRelay(kind) == IF kind = "proxy.js" THEN "api/cdx.js" ELSE "proxy.js"

\* the relay of the kind after it has served the request (url, type), its
\* upstream call, when it makes one, coming to u
served(kind, url, type, u) ==
    LET h == handler(kind, url, type)
        f == [h EXCEPT !.upstream = u]
    IN  IF h.pc = "done" THEN h
        ELSE IF u.rejected \/ ~ u.json THEN respond(f, 500, "Fetch failed")
        ELSE respond(f, 200, u.data)

\* the other relay, given the request the relay has served and the same
\* upstream outcome (any outcome when the relay made no upstream call),
\* answers with the same status and body and asks the upstream the same
RelaysAgreeOn(types) ==
    (relay.pc = "done" /\ relay.type \in types) =>
        \A u \in Upstreams :
            (relay.fetches = 0 \/ u = relay.upstream) =>
                LET theirs == served(otherRelay(relay.kind), relay.url, relay.type, u)
                IN  /\ theirs.res = relay.res
                    /\ theirs.apiUrl = relay.apiUrl
                    /\ theirs.query = relay.query
                    /\ theirs.fetches = relay.fetches

\* C38: the two relays are equivalent: for every url and type of a request,
\* missing and empty values included, and the same upstream outcome, they
\* answer with the same status and the same body and build the same
\* upstream URL.
C38_RelaysEquivalent == RelaysAgreeOn(QueryTypes)

=============================================================================
